---------------------------- MODULE Spec2Model ----------------------------
(***************************************************************************)
(* A model of the core of the object store: the single-part PUT path       *)
(* (api/s3/put.rs), the local block manager (block/manager.rs), the table  *)
(* synchronizer (table/sync.rs), tombstone garbage collection and the      *)
(* index counters (model/index_counter.rs).                                *)
(*                                                                         *)
(* Each subsystem has its own variables, its own initial predicate and its *)
(* own next-state relation; a subsystem's specification leaves the         *)
(* variables of the other subsystems at their initial values.              *)
(***************************************************************************)
EXTENDS Integers, Sequences, FiniteSets, TLC

\* Rust's Option: None is the empty tuple, Some(x) the tuple <<x>>.
None == << >>
Some(x) == <<x>>

Max2(a, b) == IF a >= b THEN a ELSE b
Min2(a, b) == IF a <= b THEN a ELSE b

RECURSIVE Pow2(_)
Pow2(n) == IF n = 0 THEN 1 ELSE 2 * Pow2(n - 1)

(***************************************************************************)
(*                                 STATE                                   *)
(***************************************************************************)

\* Index counters (model/index_counter.rs)
VARIABLES
    localCounter,   \* node -> name -> <<local_seq, count>> (LocalCounterEntry), local_seq 0: absent
    ctrInflight,    \* CounterEntry values handed to table.insert, not yet applied
    ctrEmitted,     \* every CounterEntry ever produced by count()
    tableEntry,     \* the CounterEntry row of the counter table (empty map: no row)
    ring,           \* ring.layout.node_id_vec, as a set of nodes
    lastRead        \* Option: input and output of the last filtered_values call

ctrVars == <<localCounter, ctrInflight, ctrEmitted, tableEntry, ring, lastRead>>

\* Single-part PUT (api/s3/put.rs)
VARIABLES
    putBlockSize,   \* garage.config.block_size
    putBodyLen,     \* length of the request body
    putStreamPos,   \* bytes of the body the chunker has pulled from the stream
    putBuf,         \* StreamChunker.buf, the interval of buffered bytes
    putReadAll,     \* StreamChunker.read_all
    putPc,          \* position of save_stream
    putWritten,     \* written_bytes of put_blocks
    putFirstHash,   \* first_block_hash, an Option
    putResult,      \* result of save_stream: "Ok", "Err", "running"
    objVersions,    \* object table row of the key: version uuid -> ObjectVersion state
    versionBlocks,  \* version table row of the upload: set of (offset, hash, size)
    blockRefs,      \* block_ref table: hashes referenced by the version
    blockStore,     \* blocks stored by rpc_put_block
    putContentMd5,  \* content_md5 of the request, an Option
    putContentSha256, \* content_sha256 of the request, an Option
    putQuotas,      \* bucket_params.quotas: [max_objects, max_size], Options
    putCleanup,     \* InterruptedCleanup: "none", "armed", "spawned", "inserted", "failed"
    putInserts,     \* the object versions inserted for the upload, in order
    putErr          \* why save_stream ended: "none", "stream", "checksum", "quota", "rpc", "cancelled"

\* The request's checksums and the bucket's quotas: not changed by the upload.
putReqVars == <<putContentMd5, putContentSha256, putQuotas>>

putVars == <<putBlockSize, putBodyLen, putStreamPos, putBuf, putReadAll, putPc,
             putWritten, putFirstHash, putResult, objVersions, versionBlocks,
             blockRefs, blockStore, putContentMd5, putContentSha256, putQuotas,
             putCleanup, putInserts, putErr>>

\* Local block manager of one node (block/manager.rs)
VARIABLES
    blkPlain,       \* hash -> content of the plain file of the hash, "absent" if none
    blkZst,         \* hash -> (decompressed) content of the .zst file, "absent" if none
    blkQuarantine,  \* the .corrupted / .zst.corrupted files: set of <<hash, form>>
    blkTmp,         \* tasks whose .tmp file is on disk
    blkDirSynced,   \* hash -> the directory was fsync'ed since the last rename in it
    blkRc,          \* hash -> reference count (rc tree)
    blkRcGc,        \* hash -> state of a zero count: "absent", "waiting", "ready"
    blkResync,      \* resync queue: set of <<hash, delay>>
    blkSpawned,     \* put_to_resync calls spawned by incref/decref, not yet run
    blkOwed,        \* count transitions whose put_to_resync has not succeeded yet
    blkCorruptions, \* metrics.corruption_counter
    blkLock,        \* holders of the mutation lock of the hashes' stripe
    blkTasks        \* task -> the call it runs and its position

blkVars == <<blkPlain, blkZst, blkQuarantine, blkTmp, blkDirSynced, blkRc, blkRcGc,
             blkResync, blkSpawned, blkOwed, blkCorruptions, blkLock, blkTasks>>

\* Offload of a partition by a node that does not store it (table/sync.rs)
VARIABLES
    offStore,       \* data.store of the offloading node: key -> Option value
    offLayout,      \* replication.write_nodes(begin), as the layout has it now
    offMustExit,    \* must_exit
    offPc,          \* position of offload_partition
    offItems,       \* items of the batch: sequence of <<key, value>>
    offNodes,       \* nodes the batch is sent to
    offAcked,       \* nodes that answered the Items RPC of the batch with Ok
    offFailed,      \* nodes whose Items RPC of the batch failed
    offNext,        \* index of the next item of the batch to delete
    offBatchDeleted,\* keys of the batch deleted so far
    offResult,      \* result of offload_partition: "Ok", "Err", "running"
    offLog          \* every deletion: the row, the nodes and the acknowledgements

offVars == <<offStore, offLayout, offMustExit, offPc, offItems, offNodes, offAcked,
             offFailed, offNext, offBatchDeleted, offResult, offLog>>

\* Tombstone garbage collection of one key (TableGc)
VARIABLES
    gcStore,        \* node -> Option value: the row of the key on each replica
    gcTodo,         \* gc_todo of the collecting node: value hashes awaiting GC
    gcPc,           \* position of the GC worker
    gcValue,        \* Option: the tombstone being collected
    gcUpdated,      \* peers that acknowledged the Update RPC
    gcDeleted,      \* replicas that handled the DeleteIfEqual RPC
    gcLog           \* every handled DeleteIfEqual: row before, hash given, row after

gcVars == <<gcStore, gcTodo, gcPc, gcValue, gcUpdated, gcDeleted, gcLog>>

\* Pairwise synchronization of an owned partition (table/sync.rs)
VARIABLES
    synStore,       \* node -> key -> Option value: data.store of each replica
    synInitial,     \* synStore as it was before the first synchronization
    synMerkle,      \* node -> key -> Option value hash: the leaves of the Merkle trie
    synMerkleTodo,  \* node -> keys of merkle_todo
    synRuns,        \* <<driver, peer>> -> the run of do_sync_with and its position
    synSent         \* every <<driver, peer, key>> sent in an Items RPC

synVars == <<synStore, synInitial, synMerkle, synMerkleTodo, synRuns, synSent>>

\* Fetch of a block from the nodes that store it (block/manager.rs)
VARIABLES
    getBuffered,    \* TRUE: rpc_get_block, FALSE: rpc_get_block_streaming
    getWho,         \* request_order(read_nodes(hash)): the nodes in the order they are tried
    getAnswers,     \* node -> what the node answers to GetBlock
    getNext,        \* position in getWho of the next turn of the loop
    getTried,       \* the nodes GetBlock was sent to, in order
    getPc,          \* "loop", "verify", "done"
    getFrom,        \* Option: the node whose header and stream were returned
    getResult       \* "running", "Ok", "OkCorrupt", "OkBrokenStream", "Err", "ErrCorrupt"

getVars == <<getBuffered, getWho, getAnswers, getNext, getTried, getPc, getFrom, getResult>>

\* The mutation lock of the block files (block/manager.rs)
VARIABLES
    mutLock,        \* stripe -> the task that holds mutation_lock[stripe], 0 if free
    mutTasks        \* task -> the operation it runs, on which hash, and its position

mutVars == <<mutLock, mutTasks>>

\* The watcher and the syncer tasks of a table (table/sync.rs)
VARIABLES
    wtNow,          \* the time, in seconds
    wtRing,         \* version of the ring published in system.ring
    wtRingSeen,     \* version ring_recv has marked as seen
    wtPrevRing,     \* prev_ring of watcher_task
    wtSyncedRing,   \* version of the ring at the last add_full_sync for a ring change
    wtNothingSince, \* nothing_to_do_since: Option of a time
    wtSleep,        \* deadline of the sleep of the select! the watcher is in
    wtBusy,         \* messages in the busy channel
    wtTodo,         \* number of partitions in SyncTodo
    wtSyncer,       \* the syncer: "pop", "syncing", or "sleeping"
    wtSyncerSleep,  \* deadline of the syncer's sleep
    wtFullSyncs,    \* times at which the interval made the watcher add a full sync
    wtExit          \* must_exit

wtVars == <<wtNow, wtRing, wtRingSeen, wtPrevRing, wtSyncedRing, wtNothingSince, wtSleep,
            wtBusy, wtTodo, wtSyncer, wtSyncerSleep, wtFullSyncs, wtExit>>

\* The versions and block-refs passes of the repair worker (garage/repair.rs)
VARIABLES
    repPass,        \* "versions" or "block_refs"
    repObjects,     \* uuid -> state of the version of that uuid in its Object, "none" if none
    repVersions,    \* uuid -> "absent", "live" or "deleted": the row of the version table
    repBlockRefs,   \* <<block, uuid>> -> "absent", "live" or "deleted": the block_ref table
    repBlockRefs0,  \* the block_ref table when the pass started
    repPos,         \* pos: the key of the last item read, << >> at the start
    repPc,          \* "next", "lookup", "insert", "exit_check", "done", "stopped", "failed"
    repFound,       \* what the lookup of the item at pos returned
    repVisited,     \* the keys the pass has read, in order
    repSeen,        \* key -> what the lookup returned for it, "unseen" before
    repTombstoned   \* the keys for which the pass inserted a tombstone

repVars == <<repPass, repObjects, repVersions, repBlockRefs, repBlockRefs0, repPos, repPc,
             repFound, repVisited, repSeen, repTombstoned>>

\* The scrub worker of the block manager (block/repair.rs)
VARIABLES
    scrNow,         \* now_msec()
    scrPersisted,   \* Option: TIME_LAST_COMPLETE_SCRUB in state_variables_store
    scrLast,        \* time_last_complete_scrub
    scrWork,        \* ScrubWorkerState: "Running", "Paused" or "Finished"
    scrPos,         \* blocks the BlockStoreIterator of the sweep has returned
    scrResume,      \* the time of Paused(_, time)
    scrStatus,      \* status of the WorkerHandler, or "Panicked"
    scrWake,        \* Option: the deadline of the sleep of wait_for_work
    scrRestart,     \* Option: work and position when the node was last restarted
    scrAutoStart    \* Option: when the sleep of the Finished state started a sweep

scrVars == <<scrNow, scrPersisted, scrLast, scrWork, scrPos, scrResume, scrStatus, scrWake,
             scrRestart, scrAutoStart>>

\* The repair worker of the block manager (block/repair.rs)
VARIABLES
    brRc,           \* the hashes that have a row in the rc tree
    brRcThroughout, \* the hashes that had a row during all of phase 1 so far
    brFiles,        \* the entries of the data directory, in the order they are read
    brNextStart,    \* next_start: Option of a hash
    brIter,         \* block_iter: Option of the number of entries it has read
    brRangeAtSwitch,\* the rows after the cursor when phase 2 was started
    brQueue,        \* the hashes put to resync with no delay, with the phase that put them
    brStatus,       \* status of the WorkerHandler: "Busy" or "Done"
    brErrors        \* work() calls that returned an error

brVars == <<brRc, brRcThroughout, brFiles, brNextStart, brIter, brRangeAtSwitch, brQueue,
            brStatus, brErrors>>

\* The worker processor of the background runner (util/background/worker.rs)
VARIABLES
    wkStatus,       \* worker -> status of its WorkerHandler: "Busy", "Idle", "Done"
    wkPc,           \* worker -> "step", "backoff", "returned", "removed"
    wkNextJob,      \* worker -> a job worker has a job in next_job
    wkAfterErr,     \* worker -> its last work() returned an error, none was called since
    wkRemoved,      \* worker -> why the processor dropped it: "no", "Done", "interrupted"
    wkStop          \* stop_signal

wkVars == <<wkStatus, wkPc, wkNextJob, wkAfterErr, wkRemoved, wkStop>>

\* A transaction on the Db (db/lib.rs, db/sqlite_adapter.rs)
VARIABLES
    txTrees,        \* <<tree, key>> -> the committed value, TxAbsent when there is none
    txBefore,       \* the committed trees when the transaction began
    txOverlay,      \* <<tree, key>> -> what the open transaction wrote, TxNoWrite when nothing
    txPc,           \* "idle", "inTx", "returned"
    txFres,         \* what f returned: [kind, val], None when f did not return
    txRet,          \* what Db::transaction returned: [kind, val], kind "panic" for a panic
    txReadOk,       \* every get of f returned f's last write of the key, or the value before
    txOps           \* operations f made

txVars == <<txTrees, txBefore, txOverlay, txPc, txFres, txRet, txReadOk, txOps>>

\* The mutex of the SQLite adapter and the threads that use the Db (db/sqlite_adapter.rs)
VARIABLES
    sqlOwner,       \* the thread whose iterator or operation holds the MutexGuard, or None
    sqlPc,          \* thread -> "idle", "open", "iter", "ops", "done"
    sqlBatch,       \* thread -> items its loop has taken from its iterator so far
    sqlTodo,        \* thread -> operations on the Db it still has to make after its loop
    sqlRounds,      \* thread -> calls it has completed
    sqlDelayed      \* the writer waited for the mutex while an iterator advanced

sqlVars == <<sqlOwner, sqlPc, sqlBatch, sqlTodo, sqlRounds, sqlDelayed>>

\* The body of a ranged GET (api/s3/get.rs, body_from_blocks_range)
VARIABLES
    rgSizes,        \* all_blocks: the sizes of the blocks of the version, in order
    rgBegin,        \* begin of the range
    rgEnd,          \* end of the range, exclusive
    rgPc,           \* "select", "fetch", "scan", "done"
    rgBlocks,       \* blocks: the blocks kept, each <<index in all_blocks, true offset>>
    rgI,            \* index in blocks of the block being fetched
    rgPos,          \* bytes of the current block that its stream has delivered
    rgChunkOffset,  \* chunk_offset, the state of the scan
    rgBody,         \* the bytes sent in the body
    rgFetched       \* indexes of the blocks asked to the block manager

rgVars == <<rgSizes, rgBegin, rgEnd, rgPc, rgBlocks, rgI, rgPos, rgChunkOffset, rgBody, rgFetched>>

\* The block pipeline of an upload (api/s3/put.rs, read_and_put_blocks)
VARIABLES
    plBody,         \* blocks the request body holds, first_block included
    plLastLen,      \* bytes of the last block; the others have PlBlockSize bytes
    plFailAt,       \* blocks given by the body before its stream fails, None when it does not
    plPulled,       \* blocks taken from the body so far
    plRead,         \* read_blocks: [pc, hand], pc "send", "pull" or "done"
    plHashStream,   \* hash_stream: [pc, hand, sendErr], pc "recv", "send" or "done"
    plHashBlocks,   \* hash_blocks: [pc, hand, first, sendErr], first: first_block_hash is set
    plCh1,          \* items in the channel of capacity 2; item 0 is the error of the body
    plCh2,          \* items in the first channel of capacity 1
    plCh3,          \* items in the second channel of capacity 1
    plWriteFuts,    \* write_futs: [blk, offset, st], st "running", "ok" or "err"
    plWrittenBytes, \* written_bytes
    plPut,          \* put_blocks: "loop", "drain", "ok" or "err"
    plResult        \* read_and_put_blocks: "running", "Ok", "Err" or "panic"

plVars == <<plBody, plLastLen, plFailAt, plPulled, plRead, plHashStream, plHashBlocks, plCh1,
           plCh2, plCh3, plWriteFuts, plWrittenBytes, plPut, plResult>>

\* Causality tokens of K2V (model/k2v/causality.rs)
VARIABLES
    ccClock,        \* the vector clock of the causal context that is serialized
    ccForged,       \* [ints, cut]: the integers of a token made by a client and the bytes cut from its end
    ccToken,        \* the token: a sequence of base64 symbols, 64 for the padding
    ccParsed,       \* what parse returned: [ok, clock]
    ccPc            \* "start", "serialized", "parsed", "forged"

ccVars == <<ccClock, ccForged, ccToken, ccParsed, ccPc>>

\* An upload and a block-refs repair pass on replicated tables (api/s3/put.rs, garage/repair.rs)
VARIABLES
    svMode,         \* the consistency mode: "consistent", "degraded" or "dangerous"
    svVersion,      \* the nodes that store the Version row of the upload (deleted = false)
    svVersionSent,  \* the nodes to which the update of the Version row is in flight
    svRef,          \* node -> its BlockRef row of the upload: "none", "live" or "deleted"
    svRefSent,      \* the nodes to which the update of the BlockRef row is in flight
    svPc,           \* save_stream: "start", "version", "blocks", "uploading" or "failed"
    svRepair,       \* the repair pass: [node, pc], pc "scan", "lookup" or "done"
    svTombstoned    \* the pass inserted the tombstone of the BlockRef while the upload was in progress

svVars == <<svMode, svVersion, svVersionSent, svRef, svRefSent, svPc, svRepair, svTombstoned>>

\* read_range of the K2V API (api/k2v/range.rs)
VARIABLES
    rrTable,        \* the sort keys of the entries of the partition that pass the filter
    rrPrefix,       \* argument prefix: None or Some(key)
    rrStartArg,     \* argument start: None or Some(key)
    rrEnd,          \* argument end: None or Some(key)
    rrLimit,        \* argument limit: None or Some(n)
    rrChecks,       \* the build checks the overflow of integers (debug) or wraps (release)
    rrStart,        \* the local `start`
    rrIgnore,       \* the local `start_ignore`
    rrEntries,      \* the local `entries`
    rrRet,          \* None, or what read_range returned
    rrPc            \* "call", "loop", "done" or "panicked"

rrVars == <<rrTable, rrPrefix, rrStartArg, rrEnd, rrLimit, rrChecks, rrStart, rrIgnore,
            rrEntries, rrRet, rrPc>>

\* The long poll of a K2V item on a node (model/k2v/rpc.rs)
VARIABLES
    kpToken,        \* the causality token of the caller: node -> counter
    kpStored,       \* the causal context of the stored item: node -> counter
    kpUnpublished,  \* contexts of the updates committed and not yet published, oldest first
    kpSubscribed,   \* handle_poll_item has subscribed to the item
    kpChan,         \* the notifications its channel holds, oldest first
    kpValue,        \* the local `value` of handle_poll_item: None or Some(context)
    kpFirstRead,    \* None, or Some(the context read_entry gave)
    kpRet,          \* None, or Some([item |-> None or Some(context of the item returned)])
    kpPc            \* handle_poll_item: "start", "second", "loop" or "done"

kpVars == <<kpToken, kpStored, kpUnpublished, kpSubscribed, kpChan, kpValue, kpFirstRead,
            kpRet, kpPc>>

\* A ranged or part GET next to the deletion of its Version (api/s3/get.rs)
VARIABLES
    grBlocks,       \* the block map of the stored Version: sequence of [part, size]
    grDeleted,      \* the stored Version is deleted
    grMetaSize,     \* version_meta.size of the object version the GET has read
    grKind,         \* "range" (handle_get_range) or "part" (handle_get_part)
    grBegin,        \* begin of the range
    grEnd,          \* end of the range
    grPart,         \* part_number of a part GET
    grVersion,      \* None, or Some(blocks of the Version that version_table.get gave)
    grRet,          \* None, or Some(answer of the handler)
    grPc            \* "get", "bounds", "body", "done" or "panicked"

grVars == <<grBlocks, grDeleted, grMetaSize, grKind, grBegin, grEnd, grPart, grVersion, grRet,
            grPc>>

notCtrVars == <<putVars, blkVars, offVars, gcVars, synVars, getVars, mutVars, wtVars,
                repVars, scrVars, brVars, wkVars, txVars, sqlVars, rgVars, plVars, ccVars,
                svVars, rrVars, kpVars, grVars>>
notPutVars == <<ctrVars, blkVars, offVars, gcVars, synVars, getVars, mutVars, wtVars,
                repVars, scrVars, brVars, wkVars, txVars, sqlVars, rgVars, plVars, ccVars,
                svVars, rrVars, kpVars, grVars>>
notBlkVars == <<ctrVars, putVars, offVars, gcVars, synVars, getVars, mutVars, wtVars,
                repVars, scrVars, brVars, wkVars, txVars, sqlVars, rgVars, plVars, ccVars,
                svVars, rrVars, kpVars, grVars>>
notOffVars == <<ctrVars, putVars, blkVars, gcVars, synVars, getVars, mutVars, wtVars,
                repVars, scrVars, brVars, wkVars, txVars, sqlVars, rgVars, plVars, ccVars,
                svVars, rrVars, kpVars, grVars>>
notGcVars == <<ctrVars, putVars, blkVars, offVars, synVars, getVars, mutVars, wtVars,
               repVars, scrVars, brVars, wkVars, txVars, sqlVars, rgVars, plVars, ccVars,
               svVars, rrVars, kpVars, grVars>>
notSynVars == <<ctrVars, putVars, blkVars, offVars, gcVars, getVars, mutVars, wtVars,
                repVars, scrVars, brVars, wkVars, txVars, sqlVars, rgVars, plVars, ccVars,
                svVars, rrVars, kpVars, grVars>>
notGetVars == <<ctrVars, putVars, blkVars, offVars, gcVars, synVars, mutVars, wtVars,
                repVars, scrVars, brVars, wkVars, txVars, sqlVars, rgVars, plVars, ccVars,
                svVars, rrVars, kpVars, grVars>>
notMutVars == <<ctrVars, putVars, blkVars, offVars, gcVars, synVars, getVars, wtVars,
                repVars, scrVars, brVars, wkVars, txVars, sqlVars, rgVars, plVars, ccVars,
                svVars, rrVars, kpVars, grVars>>
notWtVars == <<ctrVars, putVars, blkVars, offVars, gcVars, synVars, getVars, mutVars,
               repVars, scrVars, brVars, wkVars, txVars, sqlVars, rgVars, plVars, ccVars,
               svVars, rrVars, kpVars, grVars>>
notRepVars == <<ctrVars, putVars, blkVars, offVars, gcVars, synVars, getVars, mutVars,
                wtVars, scrVars, brVars, wkVars, txVars, sqlVars, rgVars, plVars, ccVars,
                svVars, rrVars, kpVars, grVars>>
notScrVars == <<ctrVars, putVars, blkVars, offVars, gcVars, synVars, getVars, mutVars,
                wtVars, repVars, brVars, wkVars, txVars, sqlVars, rgVars, plVars, ccVars,
                svVars, rrVars, kpVars, grVars>>
notBrVars == <<ctrVars, putVars, blkVars, offVars, gcVars, synVars, getVars, mutVars,
               wtVars, repVars, scrVars, wkVars, txVars, sqlVars, rgVars, plVars, ccVars,
               svVars, rrVars, kpVars, grVars>>
notWkVars == <<ctrVars, putVars, blkVars, offVars, gcVars, synVars, getVars, mutVars,
               wtVars, repVars, scrVars, brVars, txVars, sqlVars, rgVars, plVars, ccVars,
               svVars, rrVars, kpVars, grVars>>
notTxVars == <<ctrVars, putVars, blkVars, offVars, gcVars, synVars, getVars, mutVars,
               wtVars, repVars, scrVars, brVars, wkVars, sqlVars, rgVars, plVars, ccVars,
               svVars, rrVars, kpVars, grVars>>
notSqlVars == <<ctrVars, putVars, blkVars, offVars, gcVars, synVars, getVars, mutVars,
                wtVars, repVars, scrVars, brVars, wkVars, txVars, rgVars, plVars, ccVars,
                svVars, rrVars, kpVars, grVars>>
notRgVars == <<ctrVars, putVars, blkVars, offVars, gcVars, synVars, getVars, mutVars,
               wtVars, repVars, scrVars, brVars, wkVars, txVars, sqlVars, plVars, ccVars,
               svVars, rrVars, kpVars, grVars>>
notPlVars == <<ctrVars, putVars, blkVars, offVars, gcVars, synVars, getVars, mutVars,
               wtVars, repVars, scrVars, brVars, wkVars, txVars, sqlVars, rgVars, ccVars,
               svVars, rrVars, kpVars, grVars>>
notCcVars == <<ctrVars, putVars, blkVars, offVars, gcVars, synVars, getVars, mutVars,
               wtVars, repVars, scrVars, brVars, wkVars, txVars, sqlVars, rgVars, plVars,
               svVars, rrVars, kpVars, grVars>>
notSvVars == <<ctrVars, putVars, blkVars, offVars, gcVars, synVars, getVars, mutVars,
               wtVars, repVars, scrVars, brVars, wkVars, txVars, sqlVars, rgVars, plVars,
               ccVars, rrVars, kpVars, grVars>>
notRrVars == <<ctrVars, putVars, blkVars, offVars, gcVars, synVars, getVars, mutVars,
               wtVars, repVars, scrVars, brVars, wkVars, txVars, sqlVars, rgVars, plVars,
               ccVars, svVars, kpVars, grVars>>
notKpVars == <<ctrVars, putVars, blkVars, offVars, gcVars, synVars, getVars, mutVars,
               wtVars, repVars, scrVars, brVars, wkVars, txVars, sqlVars, rgVars, plVars,
               ccVars, svVars, rrVars, grVars>>
notGrVars == <<ctrVars, putVars, blkVars, offVars, gcVars, synVars, getVars, mutVars,
               wtVars, repVars, scrVars, brVars, wkVars, txVars, sqlVars, rgVars, plVars,
               ccVars, svVars, rrVars, kpVars>>

vars == <<ctrVars, putVars, blkVars, offVars, gcVars, synVars, getVars, mutVars, wtVars,
          repVars, scrVars, brVars, wkVars, txVars, sqlVars, rgVars, plVars, ccVars,
          svVars, rrVars, kpVars, grVars>>

(***************************************************************************)
(*                    INDEX COUNTERS (model/index_counter.rs)              *)
(***************************************************************************)

\* Number of nodes that count; node ids are ordered like Uuids in a BTreeMap.
NumCtrNodes == 2
CtrNodes == 1..NumCtrNodes
\* Calls of count() per node and name.
MaxSeq == 2
CtrNames == {"objects"}
CtrIncs == {-1, 2}

\* TLC integers are 32 bits wide: the i64 of the source is modelled by a
\* two's complement word of WordBits bits.
WordBits == 5
I64Min == -Pow2(WordBits - 1)
I64Max == Pow2(WordBits - 1) - 1

\* a + b on i64 in a build without overflow checks (wrapping).
I64WrapAdd(a, b) ==
    LET s == a + b
        m == Pow2(WordBits)
    IN  ((s - I64Min) % m) + I64Min

I64Overflows(a, b) == a + b < I64Min \/ a + b > I64Max

EmptyEntry == << >>

\* The values of a map in key order (BTreeMap iteration), keys being integers.
RECURSIVE ValuesInKeyOrder(_, _)
ValuesInKeyOrder(f, keys) ==
    IF keys = {} THEN << >>
    ELSE LET k == CHOOSE x \in keys : \A y \in keys : x <= y
         IN  <<f[k]>> \o ValuesInKeyOrder(f, keys \ {k})

\* Iterator::fold(init, |a, b| a + *b)
RECURSIVE FoldAdd(_, _)
FoldAdd(acc, s) ==
    IF s = << >> THEN acc
    ELSE FoldAdd(I64WrapAdd(acc, Head(s)), Tail(s))

RECURSIVE FoldAddOverflows(_, _)
FoldAddOverflows(acc, s) ==
    IF s = << >> THEN FALSE
    ELSE I64Overflows(acc, Head(s)) \/ FoldAddOverflows(I64WrapAdd(acc, Head(s)), Tail(s))

\* The counts of the nodes of `vals` that are in the ring, in node order.
RingCounts(vals, nodes) ==
    LET kept == {n \in DOMAIN vals : n \in nodes}
    IN  ValuesInKeyOrder([n \in kept |-> vals[n][2]], kept)

\* CounterEntry::filtered_values
FilteredValues(entry, nodes) ==
    LET present == {name \in DOMAIN entry : RingCounts(entry[name], nodes) # << >>}
    IN  [name \in present |-> FoldAdd(I64Min, RingCounts(entry[name], nodes))]

\* Whether filtered_values overflows (a panic in a build with overflow checks).
FilteredValuesOverflows(entry, nodes) ==
    \E name \in DOMAIN entry :
        /\ RingCounts(entry[name], nodes) # << >>
        /\ FoldAddOverflows(I64Min, RingCounts(entry[name], nodes))

\* CounterValue::merge (self = a, other = b)
CounterValueMerge(a, b) ==
    [n \in DOMAIN a \cup DOMAIN b |->
        IF n \in DOMAIN a
        THEN IF n \in DOMAIN b /\ b[n][1] > a[n][1]
             THEN <<a[n][1], b[n][2]>>
             ELSE a[n]
        ELSE b[n]]

\* CounterEntry::merge (self = a, other = b)
CounterEntryMerge(a, b) ==
    [name \in DOMAIN a \cup DOMAIN b |->
        IF name \in DOMAIN a
        THEN IF name \in DOMAIN b
             THEN CounterValueMerge(a[name], b[name])
             ELSE a[name]
        ELSE b[name]]

\* LocalCounterEntry::into_counter_entry
IntoCounterEntry(local, node) ==
    LET present == {name \in CtrNames : local[name][1] > 0}
    IN  [name \in present |-> (node :> local[name])]

CtrInit ==
    /\ localCounter = [n \in CtrNodes |-> [name \in CtrNames |-> <<0, 0>>]]
    /\ ctrInflight = {}
    /\ ctrEmitted = {}
    /\ tableEntry = EmptyEntry
    /\ ring \in (SUBSET CtrNodes) \ {{}}
    /\ lastRead = None

\* No counter activity: the state of the counters in the other specifications.
CtrIdle ==
    /\ localCounter = None
    /\ ctrInflight = None
    /\ ctrEmitted = None
    /\ tableEntry = None
    /\ ring = None
    /\ lastRead = None

\* IndexCounter::count with counts = [(name, inc)]: the local transaction and
\* the spawned table.insert of the new distributed entry.
Count(n, name, inc) ==
    LET old == localCounter[n][name]
        new == <<old[1] + 1, old[2] + inc>>
        entry == [localCounter[n] EXCEPT ![name] = new]
        dist == IntoCounterEntry(entry, n)
    IN  /\ old[1] < MaxSeq
        /\ localCounter' = [localCounter EXCEPT ![n] = entry]
        /\ ctrInflight' = ctrInflight \cup {dist}
        /\ ctrEmitted' = ctrEmitted \cup {dist}
        /\ UNCHANGED <<tableEntry, ring, lastRead, notCtrVars>>

\* The table applies an inserted entry: the row becomes row.merge(entry).
CtrApply(m) ==
    /\ m \in ctrInflight
    /\ ctrInflight' = ctrInflight \ {m}
    /\ tableEntry' = CounterEntryMerge(tableEntry, m)
    /\ UNCHANGED <<localCounter, ctrEmitted, ring, lastRead, notCtrVars>>

\* A reader (check_quotas) calls filtered_values on the row with the current ring.
CtrRead ==
    /\ tableEntry # EmptyEntry
    /\ lastRead' = Some([entry |-> tableEntry, nodes |-> ring,
                         result |-> FilteredValues(tableEntry, ring),
                         overflow |-> FilteredValuesOverflows(tableEntry, ring)])
    /\ UNCHANGED <<localCounter, ctrInflight, ctrEmitted, tableEntry, ring, notCtrVars>>

\* The layout changes: another set of nodes is in the ring.
CtrRingChange(r) ==
    /\ r # ring
    /\ ring' = r
    /\ UNCHANGED <<localCounter, ctrInflight, ctrEmitted, tableEntry, lastRead, notCtrVars>>

CtrNext ==
    \/ \E n \in CtrNodes, name \in CtrNames, inc \in CtrIncs : Count(n, name, inc)
    \/ \E m \in ctrInflight : CtrApply(m)
    \/ CtrRead
    \/ \E r \in (SUBSET CtrNodes) \ {{}} : CtrRingChange(r)

\* The arithmetic sum of the counts of the ring's nodes.
RECURSIVE SumSeq(_)
SumSeq(s) == IF s = << >> THEN 0 ELSE Head(s) + SumSeq(Tail(s))

RingSum(entry, name, nodes) ==
    IF name \in DOMAIN entry THEN SumSeq(RingCounts(entry[name], nodes)) ELSE 0

\* C9: the value filtered_values reports for a counter name is the sum of the
\* per-node counts of the nodes currently in the ring (a name it omits has
\* sum 0), with no other offset and without overflow.
C9_FilteredValuesIsRingSum ==
    lastRead # None =>
        LET r == lastRead[1]
        IN  /\ ~r.overflow
            /\ \A name \in CtrNames :
                  IF name \in DOMAIN r.result
                  THEN r.result[name] = RingSum(r.entry, name, r.nodes)
                  ELSE RingSum(r.entry, name, r.nodes) = 0

\* The entries the program merges: those produced by count() and the rows
\* built from them.
CtrKnownEntries == ctrEmitted \cup {tableEntry}

\* C10: merge of counter entries is idempotent, commutative and associative
\* on the full stored state (per-node sequence number and count).
C10_CounterMergeIsCrdt ==
    \A e \in CtrKnownEntries, u1 \in ctrEmitted, u2 \in ctrEmitted :
        /\ CounterEntryMerge(e, e) = e
        /\ CounterEntryMerge(CounterEntryMerge(e, u1), u2)
              = CounterEntryMerge(CounterEntryMerge(e, u2), u1)
        /\ CounterEntryMerge(CounterEntryMerge(e, u1), u2)
              = CounterEntryMerge(e, CounterEntryMerge(u1, u2))

\* The pair of node n for a name: the one of the two with the greatest
\* local_seq (the left one when they are equal).
GreatestSeqPair(p, q) == IF q[1] > p[1] THEN q ELSE p

\* C11: after merging counter value b into a, the pair stored for every node
\* is the one with the greatest local_seq among a's and b's pairs for that
\* node; and once every entry a node emitted has been merged into the row, in
\* any arrival order, the row holds the node's most recent count.
C11_MergeKeepsGreatestSeqPair ==
    /\ \A a \in CtrKnownEntries, b \in ctrEmitted :
          \A name \in DOMAIN a \cap DOMAIN b :
             \A n \in DOMAIN a[name] \cap DOMAIN b[name] :
                CounterEntryMerge(a, b)[name][n] = GreatestSeqPair(a[name][n], b[name][n])
    /\ ctrInflight = {} =>
          \A name \in DOMAIN tableEntry : \A n \in DOMAIN tableEntry[name] :
             tableEntry[name][n][2] = localCounter[n][name][2]

(***************************************************************************)
(*                 SINGLE-PART PUT (api/s3/put.rs, api/s3/get.rs)          *)
(*                                                                         *)
(* The bytes of a request body are identified by their position: a piece   *)
(* of data is an interval <<lo, hi>> of body positions lo..hi-1, and a     *)
(* block's hash is identified with the block's content.                    *)
(***************************************************************************)

INLINE_THRESHOLD == 3072

\* Bodies of 0..MaxSmallBody bytes, and bodies around the inline threshold.
MaxSmallBody == 10
BodyLens == (0..MaxSmallBody) \cup {INLINE_THRESHOLD - 1, INLINE_THRESHOLD, INLINE_THRESHOLD + 2}
\* Configured block sizes, below and above the inline threshold.
BlockSizes == {4, INLINE_THRESHOLD, INLINE_THRESHOLD + 1024}
\* Sizes of the chunks the request stream yields.
ChunkSizes == {3, INLINE_THRESHOLD - 1, INLINE_THRESHOLD + 1024}

\* The uuid gen_uuid() gives the upload.
PutUuid == "v1"

ByteLen(iv) == iv[2] - iv[1]
EmptyBytes == <<0, 0>>

\* BytesBuf::take_max(n): the first min(n, len) bytes, and what remains.
TakeMax(buf, n) == <<buf[1], Min2(buf[2], buf[1] + n)>>
AfterTakeMax(buf, n) == <<Min2(buf[2], buf[1] + n), buf[2]>>

\* StreamChunker::next leaves its read loop.
ChunkerReady == putReadAll \/ ByteLen(putBuf) >= putBlockSize

\* What StreamChunker::next returns once the loop is left: None or Some(block).
ChunkerNextBlock ==
    IF ByteLen(putBuf) = 0 THEN None ELSE Some(TakeMax(putBuf, putBlockSize))

\* Object table insert of one version: versions are joined by uuid, a
\* version's state moves Uploading -> Complete -> Aborted and never back.
StateRank(st) ==
    CASE st.state = "Uploading" -> 0
      [] st.state = "Complete" -> 1
      [] st.state = "Aborted" -> 2

ObjectInsert(rows, uuid, st) ==
    IF uuid \in DOMAIN rows
    THEN IF StateRank(st) > StateRank(rows[uuid])
         THEN [rows EXCEPT ![uuid] = st]
         ELSE rows
    ELSE rows @@ (uuid :> st)

\* next_timestamp(existing_object) for the upload.
PutTimestamp == 1

\* Md5 and sha256sum of a piece of the body.
Md5Sum(bytes) == <<"md5", bytes>>
Sha256Sum(bytes) == <<"sha256", bytes>>

\* The checksums a request can carry for a body of n bytes and block size
\* bs: none, those of the body, the md5 of the body's first bs bytes, the
\* sha256 of other data.
PutChecksums(n, bs) ==
    { <<None, None>>,
      <<Some(Md5Sum(<<0, n>>)), Some(Sha256Sum(<<0, n>>))>>,
      <<Some(Md5Sum(<<0, Min2(n, bs)>>)), None>>,
      <<None, Some(Sha256Sum(<<0, n + 1>>))>> }

\* The quotas of the bucket: none, no object allowed, at most 5 bytes.
PutQuotas ==
    { [max_objects |-> None, max_size |-> None],
      [max_objects |-> Some(0), max_size |-> None],
      [max_objects |-> None, max_size |-> Some(5)] }

\* ensure_checksum_matches(data_md5sum, data_sha256sum, content_md5, content_sha256)
EnsureChecksumMatches(data_md5sum, data_sha256sum, content_md5, content_sha256) ==
    /\ content_sha256 # None => content_sha256[1] = data_sha256sum
    /\ content_md5 # None => content_md5[1] = data_md5sum

\* check_quotas(ctx, size, prev_object) with no previous object of the key
\* and no counter row for the bucket (the counters default to 0).
CheckQuotas(quotas, size) ==
    LET cnt_obj_diff == 1
        cnt_size_diff == size
    IN  /\ quotas.max_objects # None =>
              ~(cnt_obj_diff > 0 /\ 0 + cnt_obj_diff > quotas.max_objects[1])
        /\ quotas.max_size # None =>
              ~(cnt_size_diff > 0 /\ 0 + cnt_size_diff > quotas.max_size[1])

\* InterruptedCleanup::cancel
InterruptedCleanupCancel(cleanup) == "none"

\* Drop of InterruptedCleanup written without the spawned insert
InterruptedCleanupDropsNothing(cleanup) == "none"

\* InterruptedCleanup::drop: a guard that was not cancelled spawns the task
\* that inserts the Aborted version
InterruptedCleanupDrop(cleanup) == IF cleanup = "armed" THEN "spawned" ELSE cleanup

\* An object version of the upload, as given to object_table.insert
PutVersion(state) == [uuid |-> PutUuid, timestamp |-> PutTimestamp, state |-> state]

PutInit ==
    /\ putBlockSize \in BlockSizes
    /\ putBodyLen \in BodyLens
    /\ putStreamPos = 0
    /\ putBuf = EmptyBytes
    /\ putReadAll = FALSE
    /\ putPc = "first_block"
    /\ putWritten = 0
    /\ putFirstHash = None
    /\ putResult = "running"
    /\ objVersions = << >>
    /\ versionBlocks = {}
    /\ blockRefs = {}
    /\ blockStore = {}
    /\ \E ck \in PutChecksums(putBodyLen, putBlockSize) :
          putContentMd5 = ck[1] /\ putContentSha256 = ck[2]
    /\ putQuotas \in PutQuotas
    /\ putCleanup = "none"
    /\ putInserts = << >>
    /\ putErr = "none"

\* No upload: the state of the PUT path in the other specifications.
PutIdle ==
    /\ putBlockSize = None
    /\ putBodyLen = None
    /\ putStreamPos = None
    /\ putBuf = None
    /\ putReadAll = None
    /\ putPc = None
    /\ putWritten = None
    /\ putFirstHash = None
    /\ putResult = None
    /\ objVersions = None
    /\ versionBlocks = None
    /\ blockRefs = None
    /\ blockStore = None
    /\ putContentMd5 = None
    /\ putContentSha256 = None
    /\ putQuotas = None
    /\ putCleanup = None
    /\ putInserts = None
    /\ putErr = None

\* One turn of the loop of StreamChunker::next: the stream yields a chunk of
\* at most sz bytes, or ends.
ChunkerPull(sz) ==
    /\ putPc \in {"first_block", "blocks"}
    /\ ~ChunkerReady
    /\ IF putStreamPos < putBodyLen
       THEN LET n == Min2(sz, putBodyLen - putStreamPos)
            IN  /\ putStreamPos' = putStreamPos + n
                /\ putBuf' = <<putBuf[1], putBuf[2] + n>>
                /\ UNCHANGED putReadAll
       ELSE /\ putReadAll' = TRUE
            /\ UNCHANGED <<putStreamPos, putBuf>>
    /\ UNCHANGED <<putBlockSize, putBodyLen, putPc, putWritten, putFirstHash,
                   putResult, objVersions, versionBlocks, blockRefs, blockStore,
                   putReqVars, putCleanup, putInserts, putErr, notPutVars>>

\* save_stream returns the error err: its locals are dropped, the cleanup
\* guard among them.
SaveStreamFails(err) ==
    /\ putPc' = "done"
    /\ putResult' = "Err"
    /\ putErr' = err
    /\ putCleanup' = InterruptedCleanupDrop(putCleanup)

\* The request stream fails: chunker.next returns the error and save_stream
\* (or read_and_put_blocks) returns it.
PutStreamError ==
    /\ putPc \in {"first_block", "blocks"}
    /\ ~ChunkerReady
    /\ putStreamPos < putBodyLen
    /\ SaveStreamFails("stream")
    /\ UNCHANGED <<putBlockSize, putBodyLen, putStreamPos, putBuf, putReadAll,
                   putWritten, putFirstHash, objVersions, versionBlocks, blockRefs,
                   blockStore, putReqVars, putInserts, notPutVars>>

\* A block write or a table insert of read_and_put_blocks fails: the error
\* is returned through the `?` of line 177.
PutRpcError ==
    /\ putPc = "blocks"
    /\ SaveStreamFails("rpc")
    /\ UNCHANGED <<putBlockSize, putBodyLen, putStreamPos, putBuf, putReadAll,
                   putWritten, putFirstHash, objVersions, versionBlocks, blockRefs,
                   blockStore, putReqVars, putInserts, notPutVars>>

\* The future of save_stream is dropped at one of its await points (the
\* client went away).
PutCancelled ==
    /\ putPc \in {"first_block", "blocks"}
    /\ SaveStreamFails("cancelled")
    /\ UNCHANGED <<putBlockSize, putBodyLen, putStreamPos, putBuf, putReadAll,
                   putWritten, putFirstHash, objVersions, versionBlocks, blockRefs,
                   blockStore, putReqVars, putInserts, notPutVars>>

\* save_stream, lines 83-134: the first block is read; a first block shorter
\* than INLINE_THRESHOLD is checked against the checksums and the quotas,
\* stored inline, and save_stream returns. `inserted` is whether the insert
\* in the object table succeeds.
SaveStreamInline(inserted) ==
    LET first_block == IF ChunkerNextBlock = None THEN EmptyBytes ELSE ChunkerNextBlock[1]
        st == [state |-> "Complete", kind |-> "Inline",
               size |-> ByteLen(first_block), data |-> first_block]
    IN  /\ putPc = "first_block"
        /\ ChunkerReady
        /\ ByteLen(first_block) < INLINE_THRESHOLD
        /\ putBuf' = AfterTakeMax(putBuf, putBlockSize)
        /\ IF ~EnsureChecksumMatches(Md5Sum(first_block), Sha256Sum(first_block),
                                     putContentMd5, putContentSha256)
           THEN SaveStreamFails("checksum") /\ UNCHANGED <<objVersions, putInserts>>
           ELSE IF ~CheckQuotas(putQuotas, ByteLen(first_block))
           THEN SaveStreamFails("quota") /\ UNCHANGED <<objVersions, putInserts>>
           ELSE IF ~inserted
           THEN SaveStreamFails("rpc") /\ UNCHANGED <<objVersions, putInserts>>
           ELSE /\ objVersions' = ObjectInsert(objVersions, PutUuid, st)
                /\ putInserts' = Append(putInserts, PutVersion("Complete"))
                /\ putPc' = "done"
                /\ putResult' = "Ok"
                /\ UNCHANGED <<putCleanup, putErr>>
        /\ UNCHANGED <<putBlockSize, putBodyLen, putStreamPos, putReadAll, putWritten,
                       putFirstHash, versionBlocks, blockRefs, blockStore, putReqVars,
                       notPutVars>>

\* put_block_and_meta: the block is stored, added to the version's block map
\* and referenced.
PutBlockAndMeta(offset, block) ==
    /\ blockStore' = blockStore \cup {block}
    /\ versionBlocks' = versionBlocks \cup
          {[offset |-> offset, hash |-> block, size |-> ByteLen(block)]}
    /\ blockRefs' = blockRefs \cup {block}

\* save_stream, lines 139-177: the cleanup guard is made, the Uploading
\* version and the Version row are inserted and the first block enters the
\* block pipeline. `inserted` is whether the insert of the Uploading version
\* succeeds.
SaveStreamStartBlocks(inserted) ==
    LET first_block == IF ChunkerNextBlock = None THEN EmptyBytes ELSE ChunkerNextBlock[1]
    IN  /\ putPc = "first_block"
        /\ ChunkerReady
        /\ ~(ByteLen(first_block) < INLINE_THRESHOLD)
        /\ putBuf' = AfterTakeMax(putBuf, putBlockSize)
        /\ IF ~inserted
           THEN /\ putPc' = "done"
                /\ putResult' = "Err"
                /\ putErr' = "rpc"
                /\ putCleanup' = InterruptedCleanupDrop("armed")
                /\ UNCHANGED <<objVersions, putInserts, putWritten, putFirstHash,
                               versionBlocks, blockRefs, blockStore>>
           ELSE /\ objVersions' = ObjectInsert(objVersions, PutUuid,
                      [state |-> "Uploading", kind |-> "None", size |-> 0, data |-> EmptyBytes])
                /\ putInserts' = Append(putInserts, PutVersion("Uploading"))
                /\ PutBlockAndMeta(0, first_block)
                /\ putWritten' = ByteLen(first_block)
                /\ putFirstHash' = Some(first_block)
                /\ putPc' = "blocks"
                /\ putCleanup' = "armed"
                /\ UNCHANGED <<putResult, putErr>>
        /\ UNCHANGED <<putBlockSize, putBodyLen, putStreamPos, putReadAll, putReqVars,
                       notPutVars>>

\* read_and_put_blocks: the chunker gives one more block, which is written at
\* offset written_bytes.
PutNextBlock ==
    /\ putPc = "blocks"
    /\ ChunkerReady
    /\ ChunkerNextBlock # None
    /\ putBuf' = AfterTakeMax(putBuf, putBlockSize)
    /\ PutBlockAndMeta(putWritten, ChunkerNextBlock[1])
    /\ putWritten' = putWritten + ByteLen(ChunkerNextBlock[1])
    /\ UNCHANGED <<putBlockSize, putBodyLen, putStreamPos, putReadAll, putPc,
                   putFirstHash, putResult, objVersions, putReqVars, putCleanup,
                   putInserts, putErr, notPutVars>>

\* save_stream, lines 179-205: the body has ended; the checksums of all the
\* blocks and the quotas are checked, the version becomes
\* Complete(FirstBlock) with the total size and the cleanup guard is
\* cancelled. `inserted` is whether the insert of the Complete version
\* succeeds.
SaveStreamComplete(inserted) ==
    LET data == <<0, putWritten>>
    IN  /\ putPc = "blocks"
        /\ ChunkerReady
        /\ ChunkerNextBlock = None
        /\ IF ~EnsureChecksumMatches(Md5Sum(data), Sha256Sum(data),
                                     putContentMd5, putContentSha256)
           THEN SaveStreamFails("checksum") /\ UNCHANGED <<objVersions, putInserts>>
           ELSE IF ~CheckQuotas(putQuotas, putWritten)
           THEN SaveStreamFails("quota") /\ UNCHANGED <<objVersions, putInserts>>
           ELSE IF ~inserted
           THEN SaveStreamFails("rpc") /\ UNCHANGED <<objVersions, putInserts>>
           ELSE /\ objVersions' = ObjectInsert(objVersions, PutUuid,
                      [state |-> "Complete", kind |-> "FirstBlock",
                       size |-> putWritten, data |-> putFirstHash[1]])
                /\ putInserts' = Append(putInserts, PutVersion("Complete"))
                /\ putPc' = "done"
                /\ putResult' = "Ok"
                /\ putCleanup' = InterruptedCleanupCancel(putCleanup)
                /\ UNCHANGED putErr
        /\ UNCHANGED <<putBlockSize, putBodyLen, putStreamPos, putBuf, putReadAll,
                       putWritten, putFirstHash, versionBlocks, blockRefs, blockStore,
                       putReqVars, notPutVars>>

\* The task spawned by InterruptedCleanup::drop inserts the Aborted version
\* of the upload; a failure of the insert is logged only.
InterruptedCleanupTask(inserted) ==
    /\ putCleanup = "spawned"
    /\ IF inserted
       THEN /\ objVersions' = ObjectInsert(objVersions, PutUuid,
                  [state |-> "Aborted", kind |-> "None", size |-> 0, data |-> EmptyBytes])
            /\ putInserts' = Append(putInserts, PutVersion("Aborted"))
            /\ putCleanup' = "inserted"
       ELSE /\ putCleanup' = "failed"
            /\ UNCHANGED <<objVersions, putInserts>>
    /\ UNCHANGED <<putBlockSize, putBodyLen, putStreamPos, putBuf, putReadAll, putPc,
                   putWritten, putFirstHash, putResult, versionBlocks, blockRefs,
                   blockStore, putReqVars, putErr, notPutVars>>

PutNext ==
    \/ \E sz \in ChunkSizes : ChunkerPull(sz)
    \/ PutStreamError
    \/ PutRpcError
    \/ PutCancelled
    \/ \E inserted \in BOOLEAN : SaveStreamInline(inserted)
    \/ \E inserted \in BOOLEAN : SaveStreamStartBlocks(inserted)
    \/ PutNextBlock
    \/ \E inserted \in BOOLEAN : SaveStreamComplete(inserted)
    \/ \E inserted \in BOOLEAN : InterruptedCleanupTask(inserted)

\* The blocks of a version's block map in offset order (Version.blocks.items()).
RECURSIVE BlocksInOrder(_)
BlocksInOrder(bs) ==
    IF bs = {} THEN << >>
    ELSE LET b == CHOOSE x \in bs : \A y \in bs : x.offset <= y.offset
         IN  <<b>> \o BlocksInOrder(bs \ {b})

\* Concatenation of pieces of the body: adjacent pieces are joined, empty
\* pieces vanish. The result is the list of maximal runs of body positions.
RECURSIVE Concat(_)
Concat(pieces) ==
    IF pieces = << >> THEN << >>
    ELSE LET rest == Concat(Tail(pieces))
             p == Head(pieces)
         IN  IF ByteLen(p) = 0 THEN rest
             ELSE IF rest # << >> /\ rest[1][1] = p[2]
                  THEN <<<<p[1], rest[1][2]>>>> \o Tail(rest)
                  ELSE <<p>> \o rest

\* handle_get_full on the Complete version of the key: the inline bytes, or
\* the first block followed by the other blocks of the version.
HandleGetFull(st) ==
    IF st.kind = "Inline"
    THEN Concat(<<st.data>>)
    ELSE LET items == BlocksInOrder(versionBlocks)
         IN  Concat(<<st.data>> \o [i \in 1..(Len(items) - 1) |-> items[i + 1].hash])

\* The whole body, as concatenated bytes.
WholeBody == Concat(<<<<0, putBodyLen>>>>)

PutSucceeded == putPc = "done" /\ putResult = "Ok"

\* C1: a successful save_stream stores the whole body, for every block_size:
\* the object is inline only when the first block is shorter than
\* INLINE_THRESHOLD and the body has no further blocks, and a GET of the key
\* returns exactly the bytes of the body.
C1_SaveStreamStoresWholeBody ==
    PutSucceeded =>
        LET st == objVersions[PutUuid]
        IN  /\ st.state = "Complete"
            /\ st.kind = "Inline" =>
                  (st.size < INLINE_THRESHOLD /\ st.size = putBodyLen)
            /\ HandleGetFull(st) = WholeBody

\* The states of the versions inserted for the upload, in order.
PutInsertedStates == [i \in 1..Len(putInserts) |-> putInserts[i].state]

PutHasInserted(state) == \E i \in 1..Len(putInserts) : putInserts[i].state = state

\* C12: when the PUT is rejected because a quota would be exceeded, no
\* Uploading version, Version row, BlockRef row or block of the upload has
\* been written.
C12_QuotaRejectionLeavesNothing ==
    putErr = "quota" =>
        /\ ~PutHasInserted("Uploading")
        /\ versionBlocks = {}
        /\ blockRefs = {}
        /\ blockStore = {}

\* C13: when a multi-block save_stream has ended with an error or was
\* cancelled after the Uploading version was inserted, the insert of the
\* Aborted version with the same uuid and timestamp is issued by the task the
\* cleanup guard spawned; and when save_stream has returned Ok no cleanup is
\* pending and no Aborted version is inserted after the Complete one.
C13_AbortedIssuedOnFailureOnly ==
    /\ (putPc = "done" /\ putResult = "Err" /\ PutHasInserted("Uploading")) =>
          /\ putCleanup \in {"spawned", "inserted", "failed"}
          /\ putCleanup = "inserted" =>
                putInserts[Len(putInserts)] = [putInserts[1] EXCEPT !.state = "Aborted"]
    /\ (putPc = "done" /\ putResult = "Ok") =>
          /\ putCleanup = "none"
          /\ ~PutHasInserted("Aborted")

\* C13, its case: the upload was cancelled after the Uploading version was
\* inserted and the spawned task inserted the Aborted version.
C13_Witness ==
    /\ putErr = "cancelled"
    /\ putCleanup = "inserted"
    /\ PutInsertedStates = <<"Uploading", "Aborted">>

\* The bytes save_stream has received from the request stream.
PutReceived == <<0, putStreamPos>>

\* C14: no Complete version is inserted for an upload whose supplied
\* Content-MD5 or X-Amz-Content-SHA256 does not match the digest of the bytes
\* received, on the inline path and on the multi-block path.
C14_CompleteOnlyWithMatchingChecksums ==
    PutHasInserted("Complete") =>
        EnsureChecksumMatches(Md5Sum(PutReceived), Sha256Sum(PutReceived),
                              putContentMd5, putContentSha256)

(***************************************************************************)
(*                 LOCAL BLOCK MANAGER (block/manager.rs)                  *)
(*                                                                         *)
(* One node. A piece of content is named by the hash it has; "bad" names   *)
(* bytes that hash to none of the hashes in use. Calls run as tasks that   *)
(* interleave at their await points.                                       *)
(***************************************************************************)

BlkHashes == {"h1"}
BlkContents == BlkHashes \cup {"bad"}
\* blake2sum of a content
HashOf(c) == c
\* DataBlock::verify: the hash of the (decompressed) content is the given hash
Verify(data, hash) == HashOf(data) = hash

\* Concurrent calls on the node.
NumBlkTasks == 2
BlkTaskIds == 1..NumBlkTasks
\* References to one block.
MaxRc == 1
\* Corruptions counted before readers stop being started.
MaxCorruptionCount == 2

\* Delays given to put_to_resync: Duration::from_millis(0), 2 * rpc_timeout,
\* BLOCK_GC_DELAY + 10 s.
ResyncDelays == {"zero", "rpc_timeout", "gc_delay"}

blkFsVars == <<blkPlain, blkZst, blkQuarantine, blkTmp, blkDirSynced>>
blkRcVars == <<blkRc, blkRcGc, blkOwed>>
blkQueueVars == <<blkResync, blkSpawned>>

IdleTask ==
    [kind |-> "idle", hash |-> "none", pc |-> "idle", data |-> "none",
     compressed |-> FALSE, toDelete |-> FALSE, entry |-> "none",
     result |-> "none", sawCorrupt |-> FALSE, retRenamed |-> FALSE,
     retQueued |-> FALSE, retForm |-> "none", retDirSynced |-> FALSE,
     retWanted |-> "none"]

\* BlockManager::is_block_compressed: Ok(true), Ok(false) or Err
IsBlockCompressed(h) ==
    IF blkZst[h] # "absent" THEN "zst"
    ELSE IF blkPlain[h] # "absent" THEN "plain"
    ELSE "err"

BlkExists(h) == IsBlockCompressed(h) # "err"

\* RcEntry::is_deletable: no references, and the grace delay has passed
RcIsDeletable(h) == blkRc[h] = 0 /\ blkRcGc[h] # "waiting"
\* RcEntry::is_nonzero / is_needed
RcIsNeeded(h) == blkRc[h] > 0

BlkInit ==
    /\ blkPlain = [h \in BlkHashes |-> "absent"]
    /\ blkZst = [h \in BlkHashes |-> "absent"]
    /\ blkQuarantine = {}
    /\ blkTmp = {}
    /\ blkDirSynced = [h \in BlkHashes |-> TRUE]
    /\ blkRc = [h \in BlkHashes |-> 0]
    /\ blkRcGc = [h \in BlkHashes |-> "absent"]
    /\ blkResync = {}
    /\ blkSpawned = {}
    /\ blkOwed = {}
    /\ blkCorruptions = 0
    /\ blkLock = {}
    /\ blkTasks = [t \in BlkTaskIds |-> IdleTask]

\* No block activity: the state of the block manager in the other specifications.
BlkIdle ==
    /\ blkPlain = None
    /\ blkZst = None
    /\ blkQuarantine = None
    /\ blkTmp = None
    /\ blkDirSynced = None
    /\ blkRc = None
    /\ blkRcGc = None
    /\ blkResync = None
    /\ blkSpawned = None
    /\ blkOwed = None
    /\ blkCorruptions = None
    /\ blkLock = None
    /\ blkTasks = None

TaskFree(t) == blkTasks[t].kind = "idle" /\ t \notin blkTmp

\* A task returns: its result is kept and, for a read that found a corrupted
\* file, what holds of the file and of the queue at the return. A write_block
\* that returns Ok adds the form it was asked for, the form on disk and
\* whether the directory is fsync'ed, as they are at the return.
TaskReturn(t, res, queue, quarantine) ==
    LET h == blkTasks[t].hash
        saw == blkTasks[t].sawCorrupt
    IN  [blkTasks EXCEPT ![t] =
            [@ EXCEPT !.pc = "done", !.result = res, !.toDelete = FALSE,
                      !.compressed = FALSE, !.entry = "none",
                      !.retRenamed = saw /\ \E f \in {"plain", "zst"} : <<h, f>> \in quarantine,
                      !.retQueued = saw /\ <<h, "zero">> \in queue,
                      !.retForm = "none", !.retDirSynced = FALSE,
                      !.retWanted = "none"]]

\* The queue after the resync worker finished the item of a task with success.
ResyncItemDone(t) ==
    IF blkTasks[t].entry = "none" THEN blkResync
    ELSE blkResync \ {<<blkTasks[t].hash, blkTasks[t].entry>>}

\* ---- reference counts ----

\* BlockManager::block_incref: a count leaving zero spawns put_to_resync
BlockIncref(h) ==
    /\ blkRc[h] < MaxRc
    /\ blkRc' = [blkRc EXCEPT ![h] = @ + 1]
    /\ blkRcGc' = [blkRcGc EXCEPT ![h] = "absent"]
    /\ blkSpawned' = IF blkRc[h] = 0 THEN blkSpawned \cup {<<h, "rpc_timeout">>}
                     ELSE blkSpawned
    /\ blkOwed' = IF blkRc[h] = 0
                  THEN blkOwed \cup {[hash |-> h, delay |-> "rpc_timeout", to |-> "positive"]}
                  ELSE blkOwed
    /\ UNCHANGED <<blkFsVars, blkResync, blkCorruptions, blkLock, blkTasks, notBlkVars>>

\* BlockManager::block_decref: a count reaching zero becomes deletable after
\* BLOCK_GC_DELAY and spawns put_to_resync
BlockDecref(h) ==
    /\ blkRc[h] > 0
    /\ blkRc' = [blkRc EXCEPT ![h] = @ - 1]
    /\ blkRcGc' = [blkRcGc EXCEPT ![h] = IF blkRc[h] = 1 THEN "waiting" ELSE @]
    /\ blkSpawned' = IF blkRc[h] = 1 THEN blkSpawned \cup {<<h, "gc_delay">>}
                     ELSE blkSpawned
    /\ blkOwed' = IF blkRc[h] = 1
                  THEN blkOwed \cup {[hash |-> h, delay |-> "gc_delay", to |-> "zero"]}
                  ELSE blkOwed
    /\ UNCHANGED <<blkFsVars, blkResync, blkCorruptions, blkLock, blkTasks, notBlkVars>>

\* BLOCK_GC_DELAY passes for a count that dropped to zero.
GcDelayElapses(h) ==
    /\ blkRc[h] = 0
    /\ blkRcGc[h] = "waiting"
    /\ blkRcGc' = [blkRcGc EXCEPT ![h] = "ready"]
    /\ UNCHANGED <<blkFsVars, blkRc, blkOwed, blkQueueVars, blkCorruptions, blkLock, blkTasks,
                   notBlkVars>>

\* The task spawned by block_incref / block_decref runs put_to_resync.
SpawnedPutToResync(e) ==
    /\ e \in blkSpawned
    /\ blkSpawned' = blkSpawned \ {e}
    /\ blkResync' = blkResync \cup {e}
    /\ blkOwed' = {o \in blkOwed : <<o.hash, o.delay>> # e}
    /\ UNCHANGED <<blkFsVars, blkRc, blkRcGc, blkCorruptions, blkLock, blkTasks, notBlkVars>>

\* put_to_resync fails in the spawned task: the error is logged only.
SpawnedPutToResyncFails(e) ==
    /\ e \in blkSpawned
    /\ blkSpawned' = blkSpawned \ {e}
    /\ UNCHANGED <<blkFsVars, blkRcVars, blkResync, blkCorruptions, blkLock, blkTasks, notBlkVars>>

\* ---- write_block ----

\* handle_put_block: the stream is read to its end, the DataBlock is built
\* from the header and the bytes, and write_block is called with the hash of
\* the message.
HandlePutBlock(t, h, c, z) ==
    /\ TaskFree(t)
    /\ blkTasks' = [blkTasks EXCEPT ![t] =
          [IdleTask EXCEPT !.kind = "write", !.hash = h, !.pc = "lock",
                           !.data = c, !.compressed = z]]
    /\ UNCHANGED <<blkFsVars, blkRcVars, blkQueueVars, blkCorruptions, blkLock, notBlkVars>>

\* write_block, lines 469-476 and 662-691: the mutation lock is taken, the
\* directory created, and the form on disk decides what is done.
WriteBegin(t) ==
    LET tk == blkTasks[t]
        onDisk == IsBlockCompressed(tk.hash)
    IN  /\ tk.kind = "write" /\ tk.pc = "lock"
        /\ blkLock = {}
        /\ IF onDisk = "zst" \/ (onDisk = "plain" /\ ~tk.compressed)
           THEN /\ blkTasks' = [TaskReturn(t, "Ok", ResyncItemDone(t), blkQuarantine)
                                  EXCEPT ![t].retForm = onDisk,
                                         ![t].retDirSynced = blkDirSynced[tk.hash],
                                         ![t].retWanted =
                                             IF tk.compressed THEN "zst" ELSE "plain"]
                /\ blkResync' = ResyncItemDone(t)
                /\ UNCHANGED blkLock
           ELSE /\ blkTasks' = [blkTasks EXCEPT ![t] =
                      [@ EXCEPT !.pc = "tmp", !.toDelete = (onDisk = "plain")]]
                /\ blkLock' = {t}
                /\ UNCHANGED blkResync
        /\ UNCHANGED <<blkFsVars, blkRcVars, blkSpawned, blkCorruptions, notBlkVars>>

\* lines 693-702: the temporary file is created, written and fsync'ed
WriteTmp(t) ==
    /\ blkTasks[t].kind = "write" /\ blkTasks[t].pc = "tmp"
    /\ blkTmp' = blkTmp \cup {t}
    /\ blkTasks' = [blkTasks EXCEPT ![t].pc = "rename"]
    /\ UNCHANGED <<blkPlain, blkZst, blkQuarantine, blkDirSynced, blkRcVars,
                   blkQueueVars, blkCorruptions, blkLock, notBlkVars>>

\* lines 704-706: the temporary file is renamed to the final name
WriteRename(t) ==
    LET tk == blkTasks[t]
    IN  /\ tk.kind = "write" /\ tk.pc = "rename"
        /\ blkTmp' = blkTmp \ {t}
        /\ IF tk.compressed
           THEN blkZst' = [blkZst EXCEPT ![tk.hash] = tk.data] /\ UNCHANGED blkPlain
           ELSE blkPlain' = [blkPlain EXCEPT ![tk.hash] = tk.data] /\ UNCHANGED blkZst
        /\ blkDirSynced' = [blkDirSynced EXCEPT ![tk.hash] = FALSE]
        /\ blkTasks' = [blkTasks EXCEPT ![t].pc =
                            IF tk.toDelete THEN "remove_old" ELSE "syncdir"]
        /\ UNCHANGED <<blkQuarantine, blkRcVars, blkQueueVars,
                       blkCorruptions, blkLock, notBlkVars>>

\* lines 708-710: the file of the other form is removed
WriteRemoveOld(t) ==
    LET tk == blkTasks[t]
    IN  /\ tk.kind = "write" /\ tk.pc = "remove_old"
        /\ blkPlain' = [blkPlain EXCEPT ![tk.hash] = "absent"]
        /\ blkTasks' = [blkTasks EXCEPT ![t].pc = "syncdir"]
        /\ UNCHANGED <<blkZst, blkQuarantine, blkTmp, blkDirSynced, blkRcVars,
                       blkQueueVars, blkCorruptions, blkLock, notBlkVars>>

\* lines 712-725: the directory is fsync'ed and write_block returns Ok
WriteSyncDir(t) ==
    /\ blkTasks[t].kind = "write" /\ blkTasks[t].pc = "syncdir"
    /\ blkDirSynced' = [blkDirSynced EXCEPT ![blkTasks[t].hash] = TRUE]
    /\ blkTasks' = [TaskReturn(t, "Ok", ResyncItemDone(t), blkQuarantine)
                      EXCEPT ![t].retForm = IsBlockCompressed(blkTasks[t].hash),
                             ![t].retDirSynced = TRUE,
                             ![t].retWanted =
                                 IF blkTasks[t].compressed THEN "zst" ELSE "plain"]
    /\ blkResync' = ResyncItemDone(t)
    /\ blkLock' = {}
    /\ UNCHANGED <<blkPlain, blkZst, blkQuarantine, blkTmp, blkRcVars, blkSpawned,
                   blkCorruptions, notBlkVars>>

\* An I/O call of write_block fails (the `?` of lines 673, 699-701, 704, 709,
\* 717-723): write_block returns the error and the lock is released. The
\* temporary file, if it was created, is left to the task DeleteOnDrop spawns.
WriteFail(t) ==
    LET tk == blkTasks[t]
    IN  /\ tk.kind = "write"
        /\ tk.pc \in {"lock", "tmp", "rename", "remove_old", "syncdir"}
        /\ tk.pc = "lock" => blkLock = {}
        /\ blkTasks' = TaskReturn(t, "IoError", blkResync, blkQuarantine)
        /\ blkLock' = {}
        /\ UNCHANGED <<blkFsVars, blkRcVars, blkQueueVars, blkCorruptions, notBlkVars>>

\* DeleteOnDrop::drop: the spawned task removes the temporary file
DeleteOnDropRuns(t) ==
    /\ t \in blkTmp
    /\ blkTasks[t].pc # "rename"
    /\ blkTmp' = blkTmp \ {t}
    /\ UNCHANGED <<blkPlain, blkZst, blkQuarantine, blkDirSynced, blkRcVars,
                   blkQueueVars, blkCorruptions, blkLock, blkTasks, notBlkVars>>

\* ---- read_block ----

\* read_block is called (handle_get_block, the scrub worker)
ReadBlock(t, h) ==
    /\ TaskFree(t)
    /\ blkCorruptions < MaxCorruptionCount
    /\ blkTasks' = [blkTasks EXCEPT ![t] =
          [IdleTask EXCEPT !.kind = "read", !.hash = h, !.pc = "resolve"]]
    /\ UNCHANGED <<blkFsVars, blkRcVars, blkQueueVars, blkCorruptions, blkLock, notBlkVars>>

\* read_block_internal, lines 526-538: the form of the file is looked up; a
\* missing file puts the hash to resync and the error is returned.
ReadResolve(t) ==
    LET tk == blkTasks[t]
        onDisk == IsBlockCompressed(tk.hash)
    IN  /\ tk.kind = "read" /\ tk.pc = "resolve"
        /\ IF onDisk = "err"
           THEN /\ blkResync' = blkResync \cup {<<tk.hash, "rpc_timeout">>}
                /\ blkTasks' = TaskReturn(t, "IoError", blkResync', blkQuarantine)
           ELSE /\ blkTasks' = [blkTasks EXCEPT ![t] =
                      [@ EXCEPT !.pc = "open", !.compressed = (onDisk = "zst")]]
                /\ UNCHANGED blkResync
        /\ UNCHANGED <<blkFsVars, blkRcVars, blkSpawned, blkCorruptions, blkLock, notBlkVars>>

\* lines 539-554: the file is opened, read and verified; a mismatch bumps the
\* corruption counter.
ReadFile(t) ==
    LET tk == blkTasks[t]
        content == IF tk.compressed THEN blkZst[tk.hash] ELSE blkPlain[tk.hash]
    IN  /\ tk.kind = "read" /\ tk.pc = "open"
        /\ IF content = "absent"
           THEN /\ blkTasks' = TaskReturn(t, "IoError", blkResync, blkQuarantine)
                /\ UNCHANGED blkCorruptions
           ELSE IF Verify(content, tk.hash)
           THEN /\ blkTasks' = TaskReturn(t, "Ok", blkResync, blkQuarantine)
                /\ UNCHANGED blkCorruptions
           ELSE /\ blkCorruptions' = blkCorruptions + 1
                /\ blkTasks' = [blkTasks EXCEPT ![t] =
                      [@ EXCEPT !.pc = "lock_corrupt", !.sawCorrupt = TRUE]]
        /\ UNCHANGED <<blkFsVars, blkRcVars, blkQueueVars, blkLock, notBlkVars>>

\* lines 556-559 and move_block_to_corrupted: under the mutation lock the file
\* found by is_block_compressed is renamed to its .corrupted name; if no file
\* is found the error is returned.
ReadMoveToCorrupted(t) ==
    LET tk == blkTasks[t]
        onDisk == IsBlockCompressed(tk.hash)
    IN  /\ tk.kind = "read" /\ tk.pc = "lock_corrupt"
        /\ blkLock = {}
        /\ IF onDisk = "err"
           THEN /\ blkTasks' = TaskReturn(t, "IoError", blkResync, blkQuarantine)
                /\ UNCHANGED <<blkPlain, blkZst, blkQuarantine>>
           ELSE /\ blkQuarantine' = blkQuarantine \cup {<<tk.hash, onDisk>>}
                /\ IF onDisk = "zst"
                   THEN blkZst' = [blkZst EXCEPT ![tk.hash] = "absent"] /\ UNCHANGED blkPlain
                   ELSE blkPlain' = [blkPlain EXCEPT ![tk.hash] = "absent"] /\ UNCHANGED blkZst
                /\ blkTasks' = [blkTasks EXCEPT ![t].pc = "enqueue"]
        /\ UNCHANGED <<blkTmp, blkDirSynced, blkRcVars, blkQueueVars,
                       blkCorruptions, blkLock, notBlkVars>>

\* lines 560-561: the hash is put to resync with no delay and CorruptData is
\* returned
ReadEnqueue(t) ==
    LET tk == blkTasks[t]
    IN  /\ tk.kind = "read" /\ tk.pc = "enqueue"
        /\ blkResync' = blkResync \cup {<<tk.hash, "zero">>}
        /\ blkTasks' = TaskReturn(t, "CorruptData", blkResync', blkQuarantine)
        /\ UNCHANGED <<blkFsVars, blkRcVars, blkSpawned, blkCorruptions, blkLock, notBlkVars>>

\* The rename of move_block_to_corrupted or put_to_resync fails (the `?` of
\* lines 559, 560 and 740): the error is returned.
ReadFail(t) ==
    LET tk == blkTasks[t]
    IN  /\ tk.kind = "read"
        /\ tk.pc \in {"lock_corrupt", "enqueue"}
        /\ tk.pc = "lock_corrupt" => blkLock = {}
        /\ blkTasks' = TaskReturn(t, "IoError", blkResync, blkQuarantine)
        /\ UNCHANGED <<blkFsVars, blkRcVars, blkQueueVars, blkCorruptions, blkLock, notBlkVars>>

\* ---- delete_if_unneeded ----

\* delete_if_unneeded, lines 592-597 and 746: the mutation lock is taken and
\* check_block_status reads whether the file exists and the reference count.
DeleteBegin(t) ==
    LET tk == blkTasks[t]
    IN  /\ tk.kind = "delete" /\ tk.pc = "lock"
        /\ blkLock = {}
        /\ IF BlkExists(tk.hash) /\ RcIsDeletable(tk.hash)
           THEN /\ blkTasks' = [blkTasks EXCEPT ![t].pc = "remove"]
                /\ blkLock' = {t}
                /\ UNCHANGED blkResync
           ELSE /\ blkTasks' = TaskReturn(t, "Ok", ResyncItemDone(t), blkQuarantine)
                /\ blkResync' = ResyncItemDone(t)
                /\ UNCHANGED blkLock
        /\ UNCHANGED <<blkFsVars, blkRcVars, blkSpawned, blkCorruptions, notBlkVars>>

\* lines 748-755: the file found by is_block_compressed is removed
DeleteRemove(t) ==
    LET tk == blkTasks[t]
        onDisk == IsBlockCompressed(tk.hash)
    IN  /\ tk.kind = "delete" /\ tk.pc = "remove"
        /\ IF onDisk = "err"
           THEN /\ blkTasks' = TaskReturn(t, "IoError", blkResync, blkQuarantine)
                /\ UNCHANGED <<blkPlain, blkZst, blkResync>>
           ELSE /\ IF onDisk = "zst"
                   THEN blkZst' = [blkZst EXCEPT ![tk.hash] = "absent"] /\ UNCHANGED blkPlain
                   ELSE blkPlain' = [blkPlain EXCEPT ![tk.hash] = "absent"] /\ UNCHANGED blkZst
                /\ blkTasks' = TaskReturn(t, "Ok", ResyncItemDone(t), blkQuarantine)
                /\ blkResync' = ResyncItemDone(t)
        /\ blkLock' = {}
        /\ UNCHANGED <<blkQuarantine, blkTmp, blkDirSynced, blkRcVars,
                       blkSpawned, blkCorruptions, notBlkVars>>

\* remove_file fails (the `?` of line 753)
DeleteFail(t) ==
    /\ blkTasks[t].kind = "delete" /\ blkTasks[t].pc = "remove"
    /\ blkTasks' = TaskReturn(t, "IoError", blkResync, blkQuarantine)
    /\ blkLock' = {}
    /\ UNCHANGED <<blkFsVars, blkRcVars, blkQueueVars, blkCorruptions, notBlkVars>>

\* ---- the resync worker ----

\* An item of the queue whose block is needed and missing: the block is
\* fetched from a peer (which verifies it) and written with write_block. The
\* item leaves the queue when the write has succeeded.
ResyncFetch(t, h, d, z) ==
    /\ <<h, d>> \in blkResync
    /\ TaskFree(t)
    /\ blkLock = {}
    /\ RcIsNeeded(h) /\ ~BlkExists(h)
    /\ \A u \in BlkTaskIds : blkTasks[u].entry = "none"
    /\ blkTasks' = [blkTasks EXCEPT ![t] =
          [IdleTask EXCEPT !.kind = "write", !.hash = h, !.pc = "lock",
                           !.data = h, !.compressed = z, !.entry = d]]
    /\ UNCHANGED <<blkFsVars, blkRcVars, blkQueueVars, blkCorruptions, blkLock, notBlkVars>>

\* An item whose block is on disk and deletable: delete_if_unneeded is called.
ResyncDelete(t, h, d) ==
    /\ <<h, d>> \in blkResync
    /\ TaskFree(t)
    /\ blkLock = {}
    /\ BlkExists(h) /\ RcIsDeletable(h)
    /\ \A u \in BlkTaskIds : blkTasks[u].entry = "none"
    /\ blkTasks' = [blkTasks EXCEPT ![t] =
          [IdleTask EXCEPT !.kind = "delete", !.hash = h, !.pc = "lock", !.entry = d]]
    /\ UNCHANGED <<blkFsVars, blkRcVars, blkQueueVars, blkCorruptions, blkLock, notBlkVars>>

\* An item with nothing to do leaves the queue.
ResyncNothing(h, d) ==
    /\ <<h, d>> \in blkResync
    /\ blkLock = {}
    /\ ~(RcIsNeeded(h) /\ ~BlkExists(h))
    /\ ~(BlkExists(h) /\ RcIsDeletable(h))
    /\ \A u \in BlkTaskIds : blkTasks[u].entry = "none"
    /\ blkResync' = blkResync \ {<<h, d>>}
    /\ UNCHANGED <<blkFsVars, blkRcVars, blkSpawned, blkCorruptions, blkLock, blkTasks, notBlkVars>>

\* ---- the environment ----

\* The storage medium damages the file of a block.
BitRot(h) ==
    /\ BlkExists(h)
    /\ (IF blkZst[h] # "absent" THEN blkZst[h] ELSE blkPlain[h]) # "bad"
    /\ IF blkZst[h] # "absent"
       THEN blkZst' = [blkZst EXCEPT ![h] = "bad"] /\ UNCHANGED blkPlain
       ELSE blkPlain' = [blkPlain EXCEPT ![h] = "bad"] /\ UNCHANGED blkZst
    /\ UNCHANGED <<blkQuarantine, blkTmp, blkDirSynced, blkRcVars, blkQueueVars,
                   blkCorruptions, blkLock, blkTasks, notBlkVars>>

\* The caller of a finished call takes its result.
TaskDone(t) ==
    /\ blkTasks[t].pc = "done"
    /\ blkTasks' = [blkTasks EXCEPT ![t] = IdleTask]
    /\ UNCHANGED <<blkFsVars, blkRcVars, blkQueueVars, blkCorruptions, blkLock, notBlkVars>>

\* The calls on the files of the blocks: PutBlock and GetBlock handlers and
\* the storage medium, the reference counts and the resync worker being idle.
BlkNext ==
    \/ \E t \in BlkTaskIds, h \in BlkHashes, c \in BlkContents, z \in BOOLEAN :
          HandlePutBlock(t, h, c, z)
    \/ \E t \in BlkTaskIds : WriteBegin(t)
    \/ \E t \in BlkTaskIds : WriteTmp(t)
    \/ \E t \in BlkTaskIds : WriteRename(t)
    \/ \E t \in BlkTaskIds : WriteRemoveOld(t)
    \/ \E t \in BlkTaskIds : WriteSyncDir(t)
    \/ \E t \in BlkTaskIds : WriteFail(t)
    \/ \E t \in BlkTaskIds : DeleteOnDropRuns(t)
    \/ \E t \in BlkTaskIds, h \in BlkHashes : ReadBlock(t, h)
    \/ \E t \in BlkTaskIds : ReadResolve(t)
    \/ \E t \in BlkTaskIds : ReadFile(t)
    \/ \E t \in BlkTaskIds : ReadMoveToCorrupted(t)
    \/ \E t \in BlkTaskIds : ReadEnqueue(t)
    \/ \E t \in BlkTaskIds : ReadFail(t)
    \/ \E h \in BlkHashes : BitRot(h)
    \/ \E t \in BlkTaskIds : TaskDone(t)

\* The reference counts and the resync worker: blocks are written by the
\* resync worker only, and read by GetBlock handlers.
RcNext ==
    \/ \E h \in BlkHashes : BlockIncref(h)
    \/ \E h \in BlkHashes : BlockDecref(h)
    \/ \E h \in BlkHashes : GcDelayElapses(h)
    \/ \E e \in blkSpawned : SpawnedPutToResync(e)
    \/ \E e \in blkSpawned : SpawnedPutToResyncFails(e)
    \/ \E t \in BlkTaskIds : WriteBegin(t)
    \/ \E t \in BlkTaskIds : WriteTmp(t)
    \/ \E t \in BlkTaskIds : WriteRename(t)
    \/ \E t \in BlkTaskIds : WriteSyncDir(t)
    \/ \E t \in BlkTaskIds : WriteFail(t)
    \/ \E t \in BlkTaskIds : DeleteOnDropRuns(t)
    \/ \E t \in BlkTaskIds, h \in BlkHashes : ReadBlock(t, h)
    \/ \E t \in BlkTaskIds : ReadResolve(t)
    \/ \E t \in BlkTaskIds : ReadFile(t)
    \/ \E t \in BlkTaskIds : DeleteBegin(t)
    \/ \E t \in BlkTaskIds : DeleteRemove(t)
    \/ \E t \in BlkTaskIds : DeleteFail(t)
    \/ \E t \in BlkTaskIds, h \in BlkHashes, d \in ResyncDelays, z \in BOOLEAN :
          ResyncFetch(t, h, d, z)
    \/ \E t \in BlkTaskIds, h \in BlkHashes, d \in ResyncDelays : ResyncDelete(t, h, d)
    \/ \E h \in BlkHashes, d \in ResyncDelays : ResyncNothing(h, d)
    \/ \E t \in BlkTaskIds : TaskDone(t)

\* ---- properties of the block manager ----

\* C2: a PutBlock whose data does not hash to the hash of the request is
\* rejected: its file is never renamed to the block's final name, and the
\* request does not answer Ok.
C2_PutBlockVerifiesHash ==
    \A t \in BlkTaskIds :
        (blkTasks[t].kind = "write" /\ ~Verify(blkTasks[t].data, blkTasks[t].hash))
        => /\ blkTasks[t].pc \notin {"remove_old", "syncdir"}
           /\ blkTasks[t].pc = "done" => blkTasks[t].result # "Ok"

\* C6: in every state, a block with a positive reference count has its file
\* on disk or its hash in the resync queue.
C6_NeededBlockOnDiskOrQueued ==
    \A h \in BlkHashes :
        blkRc[h] > 0 => (BlkExists(h) \/ \E d \in ResyncDelays : <<h, d>> \in blkResync)

\* C7: in every state of the data directory, at most one of the plain file
\* and the .zst file of a hash exists.
C7_NeverBothForms ==
    \A h \in BlkHashes : ~(blkPlain[h] # "absent" /\ blkZst[h] # "absent")

\* C8: a read that found the file not to hash to the requested hash returns
\* the corrupt-data error, and at its return the file has been renamed to a
\* .corrupted name, the corruption counter has been incremented and the hash
\* is in the resync queue with zero delay.
C8_CorruptReadQuarantines ==
    \A t \in BlkTaskIds :
        (blkTasks[t].kind = "read" /\ blkTasks[t].pc = "done" /\ blkTasks[t].sawCorrupt)
        => /\ blkTasks[t].result = "CorruptData"
           /\ blkTasks[t].retRenamed
           /\ blkTasks[t].retQueued
           /\ blkCorruptions > 0

\* C39: whenever a read renames the file of a block to its .corrupted
\* name, the content the file has at the rename fails the verification, so
\* that a valid copy written by the resync between the read and the rename
\* is never quarantined.
C39_OnlyCorruptContentIsQuarantined ==
    [][\A t \in BlkTaskIds :
          (blkTasks[t].kind = "read" /\ blkTasks[t].pc = "lock_corrupt"
             /\ blkTasks'[t].pc = "enqueue")
          => LET h == blkTasks[t].hash
             IN  /\ (blkPlain[h] # "absent" /\ blkPlain'[h] = "absent")
                       => ~Verify(blkPlain[h], h)
                 /\ (blkZst[h] # "absent" /\ blkZst'[h] = "absent")
                       => ~Verify(blkZst[h], h)]_vars

\* C17: whenever write_block returns Ok, the block's file exists under its
\* final name and the directory was fsync'ed after the rename that put it
\* there, the early return on a file that is already present included.
C17_WriteOkIsDurable ==
    \A t \in BlkTaskIds :
        (blkTasks[t].kind = "write" /\ blkTasks[t].pc = "done" /\ blkTasks[t].result = "Ok")
            => (blkTasks[t].retForm \in {"plain", "zst"} /\ blkTasks[t].retDirSynced)

\* C18: after write_block returned Ok the block is stored in the form of the
\* data it was given, compressed or plain, whichever form was there before.
C18_WriteOkStoresFormOfData ==
    \A t \in BlkTaskIds :
        (blkTasks[t].kind = "write" /\ blkTasks[t].pc = "done" /\ blkTasks[t].result = "Ok")
            => blkTasks[t].retForm = blkTasks[t].retWanted

\* C19: every transition of a reference count from zero to positive, and
\* from positive to zero, puts the hash in the resync queue (its put is
\* pending in the spawned task or was done), the drop to zero with a delay of
\* at least BLOCK_GC_DELAY.
C19_CountTransitionsReachResyncQueue ==
    \A o \in blkOwed :
        /\ <<o.hash, o.delay>> \in blkSpawned
        /\ o.to = "zero" => o.delay = "gc_delay"

(***************************************************************************)
(*                    TABLE DATA (TableData, TableSchema)                  *)
(*                                                                         *)
(* An entry value is <<timestamp, kind>>, kind "val" or "tomb" (a          *)
(* tombstone); merge keeps the later one, a tombstone winning a tie.       *)
(***************************************************************************)

\* Timestamps of the writes.
MaxTs == 2
TblKinds == {"val", "tomb"}
TblValues == {<<ts, kind>> : ts \in 1..MaxTs, kind \in TblKinds}

ValueLess(a, b) == a[1] < b[1] \/ (a[1] = b[1] /\ a[2] = "val" /\ b[2] = "tomb")

\* Entry::merge
EntryMerge(a, b) == IF ValueLess(a, b) THEN b ELSE a

IsTombstone(v) == v[2] = "tomb"

\* blake2sum of the serialized value
ValueHash(v) == <<"blake2", v>>

\* TableData::update_many on one row: the row becomes prev.merge(item)
UpdateEntry(row, item) ==
    IF row = None THEN Some(item) ELSE Some(EntryMerge(row[1], item))

\* TableData::delete_if_equal: the row is removed only if its serialized
\* value equals the bytes given
DeleteIfEqual(row, value) == IF row = Some(value) THEN None ELSE row

\* delete_if_equal_hash written without the comparison: the row is removed
DeleteIfEqualHashUnconditional(row, vhash) == None

\* TableData::delete_if_equal_hash: the row is removed only if its serialized
\* value hashes to the hash given
DeleteIfEqualHash(row, vhash) ==
    IF row # None /\ ValueHash(row[1]) = vhash THEN None ELSE row

(***************************************************************************)
(*              OFFLOAD OF A PARTITION (table/sync.rs)                     *)
(***************************************************************************)

\* Rows of the partition.
NumOffKeys == 2
OffKeys == 1..NumOffKeys
OffSelf == "self"
\* The values written to a row while the partition is offloaded: a later
\* value and its tombstone.
OffValues == {<<2, "val">>, <<2, "tomb">>}
OffPeers == {"n1", "n2", "n3"}
\* What write_nodes(begin) can be: the partition stored by three other nodes,
\* by too few nodes, or by this node again.
OffLayouts == {{"n1", "n2", "n3"}, {"n1"}, {"n1", "n2", OffSelf}}

\* replication.write_quorum()
WriteQuorum == 2

\* Items of a batch (1024 in the source).
OffloadBatchSize == 1

\* offload_partition, lines 261-270: the first rows of the range, at most a batch
OffloadScan(store) ==
    LET present == {k \in OffKeys : store[k] # None}
        keys == ValuesInKeyOrder([k \in present |-> k], present)
        n == Min2(Len(keys), OffloadBatchSize)
    IN  [i \in 1..n |-> <<keys[i], store[keys[i]][1]>>]

\* RequestStrategy::with_quorum(nodes.len()) of offload_items, written for a
\* quorum of write_quorum instead
OffloadQuorumIsWriteQuorum(nodes) == WriteQuorum

\* RequestStrategy::with_quorum(nodes.len()) of offload_items
OffloadQuorum(nodes) == Cardinality(nodes)

OffInit ==
    /\ offStore = [k \in OffKeys |-> Some(<<1, "val">>)]
    /\ offLayout \in OffLayouts
    /\ offMustExit = FALSE
    /\ offPc = "scan"
    /\ offItems = << >>
    /\ offNodes = {}
    /\ offAcked = {}
    /\ offFailed = {}
    /\ offNext = 1
    /\ offBatchDeleted = {}
    /\ offResult = "running"
    /\ offLog = None

\* No offload: the state of the offload in the other specifications.
OffIdle ==
    /\ offStore = None
    /\ offLayout = None
    /\ offMustExit = None
    /\ offPc = None
    /\ offItems = None
    /\ offNodes = None
    /\ offAcked = None
    /\ offFailed = None
    /\ offNext = None
    /\ offBatchDeleted = None
    /\ offResult = None
    /\ offLog = None

\* offload_partition, one turn of the loop up to the call of offload_items
\* (lines 259-297): the batch is read, the nodes are looked up, and the
\* Items RPC is sent to each of them.
OffloadBatch ==
    LET items == OffloadScan(offStore)
    IN  /\ offPc = "scan"
        /\ offNext' = 1
        /\ offBatchDeleted' = {}
        /\ offAcked' = {}
        /\ offFailed' = {}
        /\ IF offMustExit \/ items = << >> \/ OffSelf \in offLayout
           THEN /\ offPc' = "done"
                /\ offResult' = "Ok"
                /\ UNCHANGED <<offItems, offNodes>>
           ELSE IF Cardinality(offLayout) < WriteQuorum
           THEN /\ offPc' = "done"
                /\ offResult' = "Err"
                /\ UNCHANGED <<offItems, offNodes>>
           ELSE /\ offPc' = "rpc"
                /\ offItems' = items
                /\ offNodes' = offLayout
                /\ UNCHANGED offResult
        /\ UNCHANGED <<offStore, offLayout, offMustExit, offLog, notOffVars>>

\* A node handles the Items RPC of the batch and answers Ok.
OffloadAck(n) ==
    /\ offPc \in {"rpc", "delete"}
    /\ n \in offNodes \ (offAcked \cup offFailed)
    /\ offAcked' = offAcked \cup {n}
    /\ UNCHANGED <<offStore, offLayout, offMustExit, offPc, offItems, offNodes, offFailed,
                   offNext, offBatchDeleted, offResult, offLog, notOffVars>>

\* The Items RPC to a node fails or times out: try_call_many returns an error
\* as soon as the quorum cannot be reached any more, and offload_items and
\* offload_partition return it.
OffloadRpcFails(n) ==
    /\ offPc = "rpc"
    /\ n \in offNodes \ (offAcked \cup offFailed)
    /\ offFailed' = offFailed \cup {n}
    /\ IF Cardinality(offFailed') > Cardinality(offNodes) - OffloadQuorum(offNodes)
       THEN offPc' = "done" /\ offResult' = "Err"
       ELSE UNCHANGED <<offPc, offResult>>
    /\ UNCHANGED <<offStore, offLayout, offMustExit, offItems, offNodes, offAcked,
                   offNext, offBatchDeleted, offLog, notOffVars>>

\* try_call_many returns Ok: the quorum of nodes has answered Ok.
OffloadQuorumReached ==
    /\ offPc = "rpc"
    /\ Cardinality(offAcked) >= OffloadQuorum(offNodes)
    /\ offPc' = "delete"
    /\ UNCHANGED <<offStore, offLayout, offMustExit, offItems, offNodes, offAcked, offFailed,
                   offNext, offBatchDeleted, offResult, offLog, notOffVars>>

\* offload_items, lines 338-343: one turn of the loop of delete_if_equal
OffloadDeleteIfEqual ==
    LET k == offItems[offNext][1]
        v == offItems[offNext][2]
        row == DeleteIfEqual(offStore[k], v)
    IN  /\ offPc = "delete"
        /\ offNext <= Len(offItems)
        /\ offStore' = [offStore EXCEPT ![k] = row]
        /\ offNext' = offNext + 1
        /\ IF row # offStore[k]
           THEN /\ offBatchDeleted' = offBatchDeleted \cup {k}
                /\ offLog' = Some([key |-> k, sent |-> v, before |-> offStore[k],
                                    nodes |-> offNodes, acked |-> offAcked])
           ELSE UNCHANGED <<offBatchDeleted, offLog>>
        /\ UNCHANGED <<offLayout, offMustExit, offPc, offItems, offNodes, offAcked,
                       offFailed, offResult, notOffVars>>

\* offload_items returns Ok and offload_partition goes to its next turn
OffloadItemsDone ==
    /\ offPc = "delete"
    /\ offNext > Len(offItems)
    /\ offPc' = "scan"
    /\ UNCHANGED <<offStore, offLayout, offMustExit, offItems, offNodes, offAcked, offFailed,
                   offNext, offBatchDeleted, offResult, offLog, notOffVars>>

\* A write of the table reaches the offloading node: update_many merges it.
OffLocalUpdate(k, v) ==
    /\ offPc # "done"
    /\ offStore' = [offStore EXCEPT ![k] = UpdateEntry(offStore[k], v)]
    /\ offStore'[k] # offStore[k]
    /\ UNCHANGED <<offLayout, offMustExit, offPc, offItems, offNodes, offAcked, offFailed,
                   offNext, offBatchDeleted, offResult, offLog, notOffVars>>

\* The layout changes.
OffLayoutChange(l) ==
    /\ offPc # "done"
    /\ l # offLayout
    /\ offLayout' = l
    /\ UNCHANGED <<offStore, offMustExit, offPc, offItems, offNodes, offAcked, offFailed,
                   offNext, offBatchDeleted, offResult, offLog, notOffVars>>

\* The node is asked to stop.
OffMustExit ==
    /\ offPc # "done"
    /\ ~offMustExit
    /\ offMustExit' = TRUE
    /\ UNCHANGED <<offStore, offLayout, offPc, offItems, offNodes, offAcked, offFailed,
                   offNext, offBatchDeleted, offResult, offLog, notOffVars>>

OffNext ==
    \/ OffloadBatch
    \/ \E n \in OffPeers : OffloadAck(n)
    \/ \E n \in OffPeers : OffloadRpcFails(n)
    \/ OffloadQuorumReached
    \/ OffloadDeleteIfEqual
    \/ OffloadItemsDone
    \/ \E k \in OffKeys, v \in OffValues : OffLocalUpdate(k, v)
    \/ \E l \in OffLayouts : OffLayoutChange(l)
    \/ OffMustExit

GcNodes == {"n1", "n2", "n3"}
\* The node whose GC worker collects the tombstone.
GcSelf == "n1"
GcPeers == GcNodes \ {GcSelf}

GcInit ==
    /\ gcStore = [n \in GcNodes |-> None]
    /\ gcTodo = {}
    /\ gcPc = "idle"
    /\ gcValue = None
    /\ gcUpdated = {}
    /\ gcDeleted = {}
    /\ gcLog = [n \in GcNodes |-> None]

\* No garbage collection: its state in the other specifications.
GcIdle ==
    /\ gcStore = None
    /\ gcTodo = None
    /\ gcPc = None
    /\ gcValue = None
    /\ gcUpdated = None
    /\ gcDeleted = None
    /\ gcLog = None

\* A write of the key reaches a replica: update_entry_with merges it, and a
\* new value that is a tombstone is queued in gc_todo.
GcWrite(n, v) ==
    LET new == UpdateEntry(gcStore[n], v)
    IN  /\ new # gcStore[n]
        /\ gcStore' = [gcStore EXCEPT ![n] = new]
        /\ gcTodo' = IF n = GcSelf /\ IsTombstone(new[1])
                     THEN gcTodo \cup {ValueHash(new[1])}
                     ELSE gcTodo
        /\ UNCHANGED <<gcPc, gcValue, gcUpdated, gcDeleted, gcLog, notGcVars>>

\* The worker takes an entry of gc_todo older than TABLE_GC_DELAY: the entry
\* is dropped if the local value does not hash to it any more, else the
\* Update RPC is sent to the other replicas.
GcStart(h) ==
    /\ gcPc = "idle"
    /\ h \in gcTodo
    /\ gcTodo' = gcTodo \ {h}
    /\ IF gcStore[GcSelf] # None /\ ValueHash(gcStore[GcSelf][1]) = h
       THEN /\ gcPc' = "update"
            /\ gcValue' = gcStore[GcSelf]
            /\ gcUpdated' = {}
            /\ gcDeleted' = {}
       ELSE UNCHANGED <<gcPc, gcValue, gcUpdated, gcDeleted>>
    /\ UNCHANGED <<gcStore, gcLog, notGcVars>>

\* A peer handles the Update RPC: it merges the tombstone.
GcUpdateAck(n) ==
    /\ gcPc = "update"
    /\ n \in GcPeers \ gcUpdated
    /\ gcStore' = [gcStore EXCEPT ![n] = UpdateEntry(gcStore[n], gcValue[1])]
    /\ gcUpdated' = gcUpdated \cup {n}
    /\ UNCHANGED <<gcTodo, gcPc, gcValue, gcDeleted, gcLog, notGcVars>>

\* An RPC of the round fails: the round is abandoned.
GcRpcFails ==
    /\ gcPc \in {"update", "delete"}
    /\ gcPc' = "idle"
    /\ UNCHANGED <<gcStore, gcTodo, gcValue, gcUpdated, gcDeleted, gcLog, notGcVars>>

\* All peers have acknowledged the Update: DeleteIfEqual is sent to every
\* replica, this node included.
GcUpdateQuorum ==
    /\ gcPc = "update"
    /\ gcUpdated = GcPeers
    /\ gcPc' = "delete"
    /\ UNCHANGED <<gcStore, gcTodo, gcValue, gcUpdated, gcDeleted, gcLog, notGcVars>>

\* A replica handles DeleteIfEqual(key, value_hash).
GcDeleteIfEqual(n) ==
    LET vhash == ValueHash(gcValue[1])
        after == DeleteIfEqualHash(gcStore[n], vhash)
    IN  /\ gcPc = "delete"
        /\ n \in GcNodes \ gcDeleted
        /\ gcStore' = [gcStore EXCEPT ![n] = after]
        /\ gcDeleted' = gcDeleted \cup {n}
        /\ gcLog' = [gcLog EXCEPT ![n] =
              Some([before |-> gcStore[n], tombstone |-> gcValue[1], after |-> after])]
        /\ UNCHANGED <<gcTodo, gcPc, gcValue, gcUpdated, notGcVars>>

\* Every replica has handled DeleteIfEqual: the round is over.
GcRoundDone ==
    /\ gcPc = "delete"
    /\ gcDeleted = GcNodes
    /\ gcPc' = "idle"
    /\ UNCHANGED <<gcStore, gcTodo, gcValue, gcUpdated, gcDeleted, gcLog, notGcVars>>

GcNext ==
    \/ \E n \in GcNodes, v \in TblValues : GcWrite(n, v)
    \/ \E h \in gcTodo : GcStart(h)
    \/ \E n \in GcPeers : GcUpdateAck(n)
    \/ GcRpcFails
    \/ GcUpdateQuorum
    \/ \E n \in GcNodes : GcDeleteIfEqual(n)
    \/ GcRoundDone

\* C4: a DeleteIfEqual handled by a replica whose row is not the tombstone
\* being collected (the replica merged another value since the tombstone was
\* queued) leaves the row as it is, and a row it removes is that tombstone.
C4_GcLeavesNewerRow ==
    \A n \in GcNodes :
        gcLog[n] # None =>
            LET r == gcLog[n][1]
            IN  /\ (r.before # None /\ r.before[1] # r.tombstone) => r.after = r.before
                /\ r.after # r.before => r.before = Some(r.tombstone)

\* C4, its case: a replica that had merged a later value handled the
\* DeleteIfEqual of the tombstone.
C4_Witness ==
    \E n \in GcNodes :
        /\ gcLog[n] # None
        /\ gcLog[n][1].before # None
        /\ ValueLess(gcLog[n][1].tombstone, gcLog[n][1].before[1])
        /\ gcStore[n] = gcLog[n][1].before

(***************************************************************************)
(*         PAIRWISE SYNCHRONIZATION OF A PARTITION (table/sync.rs)         *)
(*                                                                         *)
(* The Merkle trie of a replica is given by its leaves: the node at a      *)
(* prefix is Empty, a Leaf or an Intermediate according to the keys whose  *)
(* hash starts with the prefix. The hash of a node is named by the leaves  *)
(* below it.                                                               *)
(***************************************************************************)

SynNodes == {"a", "b", "c"}
SynKeys == {"k1", "k2", "k3"}
\* The nibbles of the hash of a key (16 values and 64 nibbles in the source).
Nibbles == {0, 1}
KeyPath(k) ==
    CASE k = "k1" -> <<0, 0>>
      [] k = "k2" -> <<0, 1>>
      [] k = "k3" -> <<1, 0>>

\* The stores a replica can have before the synchronization: no row; k1 and
\* k3; a later k1 and k2; all three keys.
SynRows(r1, r2, r3) == [k \in SynKeys |-> IF k = "k1" THEN r1 ELSE IF k = "k2" THEN r2 ELSE r3]
SynInitStores ==
    { SynRows(None, None, None),
      SynRows(Some(<<1, "val">>), None, Some(<<1, "val">>)),
      SynRows(Some(<<2, "val">>), Some(<<1, "val">>), None),
      SynRows(Some(<<1, "val">>), Some(<<1, "val">>), Some(<<1, "val">>)) }

\* Items do_sync_with collects before it sends them (256 in the source).
SyncFlushSize == 2

SynPairs == {p \in SynNodes \X SynNodes : p[1] # p[2]}

IsPrefix(p, path) == Len(p) <= Len(path) /\ \A i \in 1..Len(p) : p[i] = path[i]

KeysUnder(leaves, p) == {k \in SynKeys : leaves[k] # None /\ IsPrefix(p, KeyPath(k))}

\* hash_of(node) for the node at a prefix
NodeHash(leaves, p) == <<"blake2", {<<k, leaves[k]>> : k \in KeysUnder(leaves, p)}>>

EmptyNode == [kind |-> "Empty", key |-> "none", children |-> << >>]

\* MerkleUpdater::read_node
ReadNode(leaves, p) ==
    LET ks == KeysUnder(leaves, p)
        parent == SubSeq(p, 1, Len(p) - 1)
    IN  IF ks = {} THEN EmptyNode
        ELSE IF Cardinality(ks) = 1
        THEN IF p = << >> \/ Cardinality(KeysUnder(leaves, parent)) > 1
             THEN [kind |-> "Leaf", key |-> CHOOSE k \in ks : TRUE, children |-> << >>]
             ELSE EmptyNode
        ELSE LET cs == {c \in Nibbles : KeysUnder(leaves, Append(p, c)) # {}}
             IN  [kind |-> "Intermediate", key |-> "none",
                  children |-> [c \in cs |-> NodeHash(leaves, Append(p, c))]]

\* The comparison written without the one-sided cases: only the nibbles that
\* the two lists have in common are followed.
DiffChildrenOnBothSides(l, l2) ==
    LET diff == {c \in DOMAIN l \cap DOMAIN l2 : l[c] # l2[c]}
    IN  ValuesInKeyOrder([c \in diff |-> c], diff)

\* join_ordered of two child lists, and the test of do_sync_with on each
\* joined entry: the nibbles, in order, whose children differ.
DiffChildren(l, l2) ==
    LET ps == DOMAIN l \cup DOMAIN l2
        diff == {c \in ps : \/ (c \in DOMAIN l /\ c \notin DOMAIN l2)
                            \/ (c \notin DOMAIN l /\ c \in DOMAIN l2)
                            \/ (c \in DOMAIN l /\ c \in DOMAIN l2 /\ l[c] # l2[c])}
    IN  ValuesInKeyOrder([c \in diff |-> c], diff)

IdleRun == [pc |-> "idle", todo |-> << >>, items |-> << >>]

SynInit ==
    /\ synStore \in [SynNodes -> SynInitStores]
    /\ synInitial = synStore
    /\ synMerkle = [n \in SynNodes |-> [k \in SynKeys |->
                        IF synStore[n][k] = None THEN None
                        ELSE Some(ValueHash(synStore[n][k][1]))]]
    /\ synMerkleTodo = [n \in SynNodes |-> {}]
    /\ synRuns = [p \in SynPairs |-> IdleRun]
    /\ synSent = {}

\* No synchronization: its state in the other specifications.
SynIdle ==
    /\ synStore = None
    /\ synInitial = None
    /\ synMerkle = None
    /\ synMerkleTodo = None
    /\ synRuns = None
    /\ synSent = None

\* handle of SyncRpc::Items on the peer: update_many merges every item, and
\* a row that changed is queued in merkle_todo.
StoreAfterItems(store, items) ==
    [k \in SynKeys |->
        IF \E i \in 1..Len(items) : items[i][1] = k
        THEN LET i == CHOOSE j \in 1..Len(items) : items[j][1] = k
             IN  UpdateEntry(store[k], items[i][2])
        ELSE store[k]]

\* send_items(who, items): the state after the peer handled the Items RPC
SendItems(from, to, items) ==
    LET after == StoreAfterItems(synStore[to], items)
    IN  /\ synStore' = [synStore EXCEPT ![to] = after]
        /\ synMerkleTodo' = [synMerkleTodo EXCEPT ![to] =
                                @ \cup {k \in SynKeys : after[k] # synStore[to][k]}]
        /\ synSent' = synSent \cup {<<from, to, items[i][1]>> : i \in 1..Len(items)}

\* The runs are taken one at a time, and a round in which a run failed or
\* was stopped starts no other run.
SyncMayStart == \A p \in SynPairs : synRuns[p].pc \in {"idle", "done"}

\* do_sync_with, lines 374-418, started when the Merkle updates of the two
\* replicas are drained: an empty partition ends the run; else the peer
\* compares the hash of the root with its own (handle of RootCkHash).
SyncRootCk(a, b) ==
    LET root == ReadNode(synMerkle[a], << >>)
        different == NodeHash(synMerkle[b], << >>) # NodeHash(synMerkle[a], << >>)
    IN  /\ synRuns[<<a, b>>].pc = "idle"
        /\ SyncMayStart
        /\ synMerkleTodo[a] = {} /\ synMerkleTodo[b] = {}
        /\ synRuns' = [synRuns EXCEPT ![<<a, b>>] =
              IF root.kind = "Empty" \/ ~different
              THEN [IdleRun EXCEPT !.pc = "done"]
              ELSE [IdleRun EXCEPT !.pc = "walk", !.todo = << << >> >>]]
        /\ UNCHANGED <<synStore, synInitial, synMerkle, synMerkleTodo, synSent, notSynVars>>

\* do_sync_with, lines 422-491: one turn of the loop. The node of the next
\* prefix is read; a leaf's item is collected, the children of an
\* intermediate node are compared with the peer's (handle of GetNode), and
\* the collected items are sent when there are enough of them.
SyncWalkStep(a, b) ==
    LET run == synRuns[<<a, b>>]
        key == Head(run.todo)
        node == ReadNode(synMerkle[a], key)
        remote == ReadNode(synMerkle[b], key)
        l2 == IF remote.kind = "Intermediate" THEN remote.children ELSE << >>
        pushed == IF node.kind = "Intermediate"
                  THEN [i \in 1..Len(DiffChildren(node.children, l2)) |->
                            Append(key, DiffChildren(node.children, l2)[i])]
                  ELSE << >>
        items == IF node.kind = "Leaf" /\ synStore[a][node.key] # None
                 THEN Append(run.items, <<node.key, synStore[a][node.key][1]>>)
                 ELSE run.items
        flush == Len(items) >= SyncFlushSize
    IN  /\ run.pc = "walk"
        /\ run.todo # << >>
        /\ synRuns' = [synRuns EXCEPT ![<<a, b>>] =
              [run EXCEPT !.todo = Tail(run.todo) \o pushed,
                          !.items = IF flush THEN << >> ELSE items]]
        /\ IF flush THEN SendItems(a, b, items)
           ELSE UNCHANGED <<synStore, synMerkleTodo, synSent>>
        /\ UNCHANGED <<synInitial, synMerkle, notSynVars>>

\* do_sync_with, lines 493-498: the loop is over, the remaining items are
\* sent and the run returns Ok.
SyncFinish(a, b) ==
    LET run == synRuns[<<a, b>>]
    IN  /\ run.pc = "walk"
        /\ run.todo = << >>
        /\ synRuns' = [synRuns EXCEPT ![<<a, b>>] = [IdleRun EXCEPT !.pc = "done"]]
        /\ IF run.items # << >> THEN SendItems(a, b, run.items)
           ELSE UNCHANGED <<synStore, synMerkleTodo, synSent>>
        /\ UNCHANGED <<synInitial, synMerkle, notSynVars>>

\* must_exit is set: the loop is left, the collected items are sent and the
\* run returns Ok before the walk is complete.
SyncMustExit(a, b) ==
    LET run == synRuns[<<a, b>>]
    IN  /\ run.pc = "walk"
        /\ run.todo # << >>
        /\ synRuns' = [synRuns EXCEPT ![<<a, b>>] = [IdleRun EXCEPT !.pc = "stopped"]]
        /\ IF run.items # << >> THEN SendItems(a, b, run.items)
           ELSE UNCHANGED <<synStore, synMerkleTodo, synSent>>
        /\ UNCHANGED <<synInitial, synMerkle, notSynVars>>

\* An RPC of the run fails (the `?` of lines 398, 456, 489, 495): the run
\* returns the error.
SyncRpcFails(a, b) ==
    /\ synRuns[<<a, b>>].pc = "walk"
    /\ synRuns' = [synRuns EXCEPT ![<<a, b>>] = [IdleRun EXCEPT !.pc = "failed"]]
    /\ UNCHANGED <<synStore, synInitial, synMerkle, synMerkleTodo, synSent, notSynVars>>

\* The Merkle updater takes a key of merkle_todo and rewrites the trie.
MerkleUpdate(n, k) ==
    /\ k \in synMerkleTodo[n]
    /\ synMerkleTodo' = [synMerkleTodo EXCEPT ![n] = @ \ {k}]
    /\ synMerkle' = [synMerkle EXCEPT ![n][k] =
          IF synStore[n][k] = None THEN None ELSE Some(ValueHash(synStore[n][k][1]))]
    /\ UNCHANGED <<synStore, synInitial, synRuns, synSent, notSynVars>>

SynNext ==
    \/ \E p \in SynPairs : SyncRootCk(p[1], p[2])
    \/ \E p \in SynPairs : SyncWalkStep(p[1], p[2])
    \/ \E p \in SynPairs : SyncFinish(p[1], p[2])
    \/ \E p \in SynPairs : SyncMustExit(p[1], p[2])
    \/ \E p \in SynPairs : SyncRpcFails(p[1], p[2])
    \/ \E n \in SynNodes, k \in SynKeys : MerkleUpdate(n, k)

\* Every replica has run do_sync_with against every other replica to
\* completion, and the Merkle updates are drained.
SyncAllDone ==
    /\ \A p \in SynPairs : synRuns[p].pc = "done"
    /\ \A n \in SynNodes : synMerkleTodo[n] = {}

Diverged(a, b, k) == synInitial[a][k] # synInitial[b][k]

GetNodes == {"n1", "n2", "n3"}
GetAnswerKinds == {"valid", "corrupt", "broken_stream", "error", "malformed", "timeout"}

\* The orders request_order can give to the nodes
RECURSIVE GetOrders(_)
GetOrders(nodes) ==
    IF nodes = {} THEN {<< >>}
    ELSE UNION {{<<n>> \o o : o \in GetOrders(nodes \ {n})} : n \in nodes}

\* The test written so that whatever a node answers is returned
GetAnyAnswer(answer) == TRUE

\* GetBlock gave a header and a stream (the Ok arm of res.into_parts())
GetHasStream(answer) == answer \in {"valid", "corrupt", "broken_stream"}

GetInit ==
    /\ getBuffered \in BOOLEAN
    /\ getWho \in GetOrders(GetNodes)
    /\ getAnswers \in [GetNodes -> GetAnswerKinds]
    /\ getNext = 1
    /\ getTried = << >>
    /\ getPc = "loop"
    /\ getFrom = None
    /\ getResult = "running"

\* No fetch: its state in the other specifications.
GetIdle ==
    /\ getBuffered = None
    /\ getWho = None
    /\ getAnswers = None
    /\ getNext = None
    /\ getTried = None
    /\ getPc = None
    /\ getFrom = None
    /\ getResult = None

\* What the caller of rpc_get_block_streaming gets from the stream of a node
GetStreamResult(answer) ==
    CASE answer = "valid" -> "Ok"
      [] answer = "corrupt" -> "OkCorrupt"
      [] OTHER -> "OkBrokenStream"

\* rpc_get_raw_block_streaming, one turn of the loop: GetBlock is sent to the
\* next node; its header and stream are returned, or the next node is tried.
RpcGetRawBlockStreamingTurn ==
    LET node == getWho[getNext]
    IN  /\ ~getBuffered
        /\ getPc = "loop"
        /\ getNext <= Len(getWho)
        /\ getTried' = Append(getTried, node)
        /\ IF GetHasStream(getAnswers[node])
           THEN /\ getPc' = "done"
                /\ getFrom' = Some(node)
                /\ getResult' = GetStreamResult(getAnswers[node])
                /\ UNCHANGED getNext
           ELSE /\ getNext' = getNext + 1
                /\ UNCHANGED <<getPc, getFrom, getResult>>
        /\ UNCHANGED <<getBuffered, getWho, getAnswers, notGetVars>>

\* rpc_get_raw_block, one turn of the loop: as above, and the stream is read
\* to its end; a stream that breaks makes the next node be tried.
RpcGetRawBlockTurn ==
    LET node == getWho[getNext]
    IN  /\ getBuffered
        /\ getPc = "loop"
        /\ getNext <= Len(getWho)
        /\ getTried' = Append(getTried, node)
        /\ IF getAnswers[node] \in {"valid", "corrupt"}
           THEN /\ getPc' = "verify"
                /\ getFrom' = Some(node)
                /\ UNCHANGED getNext
           ELSE /\ getNext' = getNext + 1
                /\ UNCHANGED <<getPc, getFrom>>
        /\ UNCHANGED <<getBuffered, getWho, getAnswers, getResult, notGetVars>>

\* The loop over the nodes is over: "no node returned a valid block"
RpcGetNoNode ==
    /\ getPc = "loop"
    /\ getNext > Len(getWho)
    /\ getPc' = "done"
    /\ getResult' = "Err"
    /\ UNCHANGED <<getBuffered, getWho, getAnswers, getNext, getTried, getFrom, notGetVars>>

\* rpc_get_block: verify_get on the block rpc_get_raw_block returned
RpcGetBlockVerify ==
    /\ getPc = "verify"
    /\ getPc' = "done"
    /\ getResult' = IF getAnswers[getFrom[1]] = "valid" THEN "Ok" ELSE "ErrCorrupt"
    /\ UNCHANGED <<getBuffered, getWho, getAnswers, getNext, getTried, getFrom, notGetVars>>

GetNext ==
    \/ RpcGetRawBlockStreamingTurn
    \/ RpcGetRawBlockTurn
    \/ RpcGetNoNode
    \/ RpcGetBlockVerify

\* C15: rpc_get_block returns the correct bytes whenever at least one node
\* of read_nodes(hash) can serve a valid copy: a replica whose answer fails
\* in any way, data that fails the hash verification included, is skipped in
\* favour of the next one.
C15_GetBlockFindsValidCopy ==
    (getBuffered /\ getPc = "done" /\ \E n \in GetNodes : getAnswers[n] = "valid")
        => getResult = "Ok"

\* C16: rpc_get_block_streaming tries the nodes in request order, each at
\* most once; a node that gives an error, a malformed response or no answer
\* in time is skipped; the call fails only after every node was tried; and
\* once the header and stream of a node are returned no other node is
\* contacted.
C16_StreamingTriesNodesInOrder ==
    ~getBuffered =>
        /\ Len(getTried) <= Len(getWho)
        /\ getTried = SubSeq(getWho, 1, Len(getTried))
        /\ \A i \in 1..Len(getTried) :
              (getFrom = None \/ i < Len(getTried))
                 => getAnswers[getTried[i]] \in {"error", "malformed", "timeout"}
        /\ getResult = "Err" => Len(getTried) = Len(getWho)
        /\ getFrom # None =>
              /\ getPc = "done"
              /\ getFrom[1] = getTried[Len(getTried)]
              /\ getAnswers[getFrom[1]] \in {"valid", "corrupt", "broken_stream"}
        /\ (getPc = "done" /\ getFrom = None) => getResult = "Err"

\* C16, its case: the first node did not answer in time, the second gave a
\* malformed response, and the header and stream of the third were returned.
C16_Witness ==
    /\ ~getBuffered
    /\ getPc = "done"
    /\ Len(getTried) = 3
    /\ getAnswers[getTried[1]] = "timeout"
    /\ getAnswers[getTried[2]] = "malformed"
    /\ getFrom = Some(getTried[3])

(***************************************************************************)
(*           THE MUTATION LOCK OF THE BLOCK FILES (block/manager.rs)       *)
(*                                                                         *)
(* write_block, move_block_to_corrupted, delete_if_unneeded and            *)
(* check_block_status of several blocks, run by concurrent tasks: each     *)
(* goes through lock_mutate and holds the guard for the whole call.        *)
(***************************************************************************)

\* Concurrent tasks that mutate block files.
NumMutTasks == 3
MutTaskIds == 1..NumMutTasks

\* Hashes as <<first byte, rest>>: two share their first byte, one does not.
MutHashes == {<<0, 1>>, <<0, 2>>, <<1, 1>>}

\* The methods of BlockManagerLocked
MutOps == {"write_block", "move_block_to_corrupted", "delete_if_unneeded",
           "check_block_status"}

\* One lock for all hashes.
LockStripeIsGlobal(hash) == 0
\* lock_mutate: the index hash.as_slice()[0] in mutation_lock
LockStripe(hash) == hash[1]

MutStripes == {h[1] : h \in MutHashes}

MutIdleTask == [op |-> "none", hash |-> << >>, pc |-> "idle"]

MutInit ==
    /\ mutLock = [s \in MutStripes |-> 0]
    /\ mutTasks = [t \in MutTaskIds |-> MutIdleTask]

MutIdle ==
    /\ mutLock = None
    /\ mutTasks = None

\* A task calls one of the four operations on a hash: lock_mutate is called
\* and its future is pending.
LockMutateCall(t, op, hash) ==
    /\ mutTasks[t].pc = "idle"
    /\ mutTasks' = [mutTasks EXCEPT ![t] = [op |-> op, hash |-> hash, pc |-> "acquire"]]
    /\ UNCHANGED <<mutLock, notMutVars>>

\* lock_mutate returns the guard of the mutex of the hash's stripe once the
\* mutex is free; the operation of BlockManagerLocked starts.
LockMutateAcquire(t) ==
    LET s == LockStripe(mutTasks[t].hash)
    IN  /\ mutTasks[t].pc = "acquire"
        /\ mutLock[s] = 0
        /\ mutLock' = [mutLock EXCEPT ![s] = t]
        /\ mutTasks' = [mutTasks EXCEPT ![t].pc = "locked"]
        /\ UNCHANGED notMutVars

\* The operation returns (Ok or an error): the guard is dropped.
LockedOpReturns(t) ==
    LET s == LockStripe(mutTasks[t].hash)
    IN  /\ mutTasks[t].pc = "locked"
        /\ mutLock' = [mutLock EXCEPT ![s] = 0]
        /\ mutTasks' = [mutTasks EXCEPT ![t] = MutIdleTask]
        /\ UNCHANGED notMutVars

MutNext ==
    \/ \E t \in MutTaskIds, op \in MutOps, hash \in MutHashes : LockMutateCall(t, op, hash)
    \/ \E t \in MutTaskIds : LockMutateAcquire(t)
    \/ \E t \in MutTaskIds : LockedOpReturns(t)

\* The task t waits for the lock while the task u runs its operation.
MutWaitsFor(t, u) ==
    /\ t # u
    /\ mutTasks[t].pc = "acquire"
    /\ mutTasks[u].pc = "locked"
    /\ mutLock[LockStripe(mutTasks[t].hash)] = u

\* No two operations on the same block run at the same time.
MutSerializedPerBlock ==
    \A t, u \in MutTaskIds :
        (t # u /\ mutTasks[t].pc = "locked" /\ mutTasks[u].pc = "locked")
            => mutTasks[t].hash # mutTasks[u].hash

\* C20: the local file mutations are serialized per block, and a mutation
\* waits for a mutation of another block only if the hashes of the two
\* blocks have the same first byte.
C20_SerializedPerBlockAndStripe ==
    /\ MutSerializedPerBlock
    /\ \A t, u \in MutTaskIds :
          MutWaitsFor(t, u) => mutTasks[t].hash[1] = mutTasks[u].hash[1]

\* C20, its case: two blocks whose hashes differ in the first byte are
\* mutated at the same time while a third task waits for one of them, for
\* the block it mutates.
C20_Witness ==
    \E t, u, w \in MutTaskIds :
        /\ mutTasks[t].pc = "locked" /\ mutTasks[u].pc = "locked"
        /\ mutTasks[t].hash[1] # mutTasks[u].hash[1]
        /\ MutWaitsFor(w, t)
        /\ mutTasks[w].hash = mutTasks[t].hash

\* C20 as stated: the mutations are serialized per block, and mutations of
\* two different blocks never wait for each other.
C20_DifferentBlocksNeverWait ==
    /\ MutSerializedPerBlock
    /\ \A t, u \in MutTaskIds :
          MutWaitsFor(t, u) => mutTasks[t].hash = mutTasks[u].hash

(***************************************************************************)
(*         THE WATCHER AND THE SYNCER OF A TABLE (table/sync.rs)           *)
(*                                                                         *)
(* watcher_task selects over the ring, the busy channel, must_exit and a   *)
(* sleep of one second that is created anew each time the loop goes        *)
(* round; syncer_task pops partitions and tells the watcher whether it is  *)
(* busy. Time is counted in seconds; a sleep is over at its deadline and   *)
(* time does not pass beyond the deadline of a sleep nobody has handled.   *)
(***************************************************************************)

\* ANTI_ENTROPY_INTERVAL, in seconds of the model.
AntiEntropyTicks == 2
\* The time the model runs for.
MaxWtNow == 6
\* Ring changes.
MaxRingVersion == 1
\* Partitions add_full_sync pushes.
NumTodoPartitions == 1
\* Messages waiting in the busy channel.
MaxBusyQueue == 2

WtInit ==
    /\ wtNow = 0
    /\ wtRing = 0
    /\ wtRingSeen = 0
    /\ wtPrevRing = 0
    /\ wtSyncedRing = 0
    /\ wtNothingSince = Some(0)
    /\ wtSleep = 1
    /\ wtBusy = << >>
    /\ wtTodo = 0
    /\ wtSyncer = "pop"
    /\ wtSyncerSleep = 0
    /\ wtFullSyncs = {}
    /\ wtExit = FALSE

WtIdle ==
    /\ wtNow = None
    /\ wtRing = None
    /\ wtRingSeen = None
    /\ wtPrevRing = None
    /\ wtSyncedRing = None
    /\ wtNothingSince = None
    /\ wtSleep = None
    /\ wtBusy = None
    /\ wtTodo = None
    /\ wtSyncer = None
    /\ wtSyncerSleep = None
    /\ wtFullSyncs = None
    /\ wtExit = None

\* SyncTodo::add_full_sync: the list is cleared and every partition pushed
AddFullSync == NumTodoPartitions

\* The layout changes: a new ring is published in system.ring.
RingChanges ==
    /\ ~wtExit
    /\ wtRing < MaxRingVersion
    /\ wtRing' = wtRing + 1
    /\ UNCHANGED <<wtNow, wtRingSeen, wtPrevRing, wtSyncedRing, wtNothingSince, wtSleep,
                   wtBusy, wtTodo, wtSyncer, wtSyncerSleep, wtFullSyncs, wtExit, notWtVars>>

\* watcher_task, the branch ring_recv.changed(): a ring that is not prev_ring
\* adds a full sync. The loop goes round: a new sleep is created.
WatcherRingChanged ==
    /\ ~wtExit
    /\ wtRingSeen # wtRing
    /\ wtRingSeen' = wtRing
    /\ IF wtRing # wtPrevRing
       THEN /\ wtTodo' = AddFullSync
            /\ wtPrevRing' = wtRing
            /\ wtSyncedRing' = wtRing
       ELSE UNCHANGED <<wtTodo, wtPrevRing, wtSyncedRing>>
    /\ wtSleep' = wtNow + 1
    /\ UNCHANGED <<wtNow, wtRing, wtNothingSince, wtBusy, wtSyncer, wtSyncerSleep,
                   wtFullSyncs, wtExit, notWtVars>>

\* watcher_task, the branch busy_rx.recv(): busy forgets since when there is
\* nothing to do, idle sets it if it was forgotten. The loop goes round: a
\* new sleep is created.
WatcherBusyRecv ==
    /\ ~wtExit
    /\ wtBusy # << >>
    /\ wtBusy' = Tail(wtBusy)
    /\ wtNothingSince' = IF Head(wtBusy) THEN None
                         ELSE IF wtNothingSince = None THEN Some(wtNow)
                         ELSE wtNothingSince
    /\ wtSleep' = wtNow + 1
    /\ UNCHANGED <<wtNow, wtRing, wtRingSeen, wtPrevRing, wtSyncedRing, wtTodo, wtSyncer,
                   wtSyncerSleep, wtFullSyncs, wtExit, notWtVars>>

\* watcher_task, the branch of the sleep of one second: if there was nothing
\* to do for ANTI_ENTROPY_INTERVAL a full sync is added.
WatcherTick ==
    /\ ~wtExit
    /\ wtNow >= wtSleep
    /\ IF wtNothingSince # None /\ wtNow - wtNothingSince[1] >= AntiEntropyTicks
       THEN /\ wtNothingSince' = None
            /\ wtTodo' = AddFullSync
            /\ wtFullSyncs' = wtFullSyncs \cup {wtNow}
       ELSE UNCHANGED <<wtNothingSince, wtTodo, wtFullSyncs>>
    /\ wtSleep' = wtNow + 1
    /\ UNCHANGED <<wtNow, wtRing, wtRingSeen, wtPrevRing, wtSyncedRing, wtBusy, wtSyncer,
                   wtSyncerSleep, wtExit, notWtVars>>

\* syncer_task: pop_task gives a partition, busy is sent and sync_partition
\* starts; or it gives none, idle is sent and the syncer sleeps one second.
SyncerPop ==
    /\ ~wtExit
    /\ wtSyncer = "pop"
    /\ Len(wtBusy) < MaxBusyQueue
    /\ IF wtTodo > 0
       THEN /\ wtTodo' = wtTodo - 1
            /\ wtBusy' = Append(wtBusy, TRUE)
            /\ wtSyncer' = "syncing"
            /\ UNCHANGED wtSyncerSleep
       ELSE /\ wtBusy' = Append(wtBusy, FALSE)
            /\ wtSyncer' = "sleeping"
            /\ wtSyncerSleep' = wtNow + 1
            /\ UNCHANGED wtTodo
    /\ UNCHANGED <<wtNow, wtRing, wtRingSeen, wtPrevRing, wtSyncedRing, wtNothingSince,
                   wtSleep, wtFullSyncs, wtExit, notWtVars>>

\* sync_partition returns, with Ok or with an error that is logged.
SyncerPartitionDone ==
    /\ ~wtExit
    /\ wtSyncer = "syncing"
    /\ wtSyncer' = "pop"
    /\ UNCHANGED <<wtNow, wtRing, wtRingSeen, wtPrevRing, wtSyncedRing, wtNothingSince,
                   wtSleep, wtBusy, wtTodo, wtSyncerSleep, wtFullSyncs, wtExit, notWtVars>>

\* The sleep of the idle syncer is over.
SyncerWakes ==
    /\ ~wtExit
    /\ wtSyncer = "sleeping"
    /\ wtNow >= wtSyncerSleep
    /\ wtSyncer' = "pop"
    /\ UNCHANGED <<wtNow, wtRing, wtRingSeen, wtPrevRing, wtSyncedRing, wtNothingSince,
                   wtSleep, wtBusy, wtTodo, wtSyncerSleep, wtFullSyncs, wtExit, notWtVars>>

\* must_exit is set: both loops end.
WtMustExit ==
    /\ ~wtExit
    /\ wtExit' = TRUE
    /\ UNCHANGED <<wtNow, wtRing, wtRingSeen, wtPrevRing, wtSyncedRing, wtNothingSince,
                   wtSleep, wtBusy, wtTodo, wtSyncer, wtSyncerSleep, wtFullSyncs, notWtVars>>

\* A second passes. The tasks are scheduled in time: no message waits in the
\* busy channel, no ring change waits to be seen, and no sleep is past its
\* deadline.
WtTimePasses ==
    /\ ~wtExit
    /\ wtNow < MaxWtNow
    /\ wtBusy = << >>
    /\ wtRingSeen = wtRing
    /\ wtNow < wtSleep
    /\ wtSyncer = "sleeping" => wtNow < wtSyncerSleep
    /\ wtSyncer # "pop"
    /\ wtNow' = wtNow + 1
    /\ UNCHANGED <<wtRing, wtRingSeen, wtPrevRing, wtSyncedRing, wtNothingSince, wtSleep,
                   wtBusy, wtTodo, wtSyncer, wtSyncerSleep, wtFullSyncs, wtExit, notWtVars>>

WtNext ==
    \/ RingChanges
    \/ WatcherRingChanged
    \/ WatcherBusyRecv
    \/ WatcherTick
    \/ SyncerPop
    \/ SyncerPartitionDone
    \/ SyncerWakes
    \/ WtMustExit
    \/ WtTimePasses

\* C21: a full sync is queued on every ring change and every
\* ANTI_ENTROPY_INTERVAL: once the watcher has seen the current ring it has
\* added a full sync for it, and when there has been nothing to do for
\* ANTI_ENTROPY_INTERVAL the full sync is added by the next tick of one
\* second, so that nothing_to_do_since is never older than the interval plus
\* one tick.
C21_FullSyncOnRingChangeAndInterval ==
    ~wtExit =>
        /\ wtRingSeen = wtRing => wtSyncedRing = wtRing
        /\ wtNothingSince # None => wtNow - wtNothingSince[1] <= AntiEntropyTicks + 1

(***************************************************************************)
(*        THE VERSIONS AND BLOCK-REFS REPAIR PASSES (garage/repair.rs)     *)
(*                                                                         *)
(* Each pass walks the local store of a table with an exclusive cursor,    *)
(* looks up what each live row refers to, and inserts a tombstone for the  *)
(* rows that refer to nothing. Keys are byte strings: <<uuid>> for a       *)
(* version, <<block, uuid>> for a block ref. The versions pass runs while  *)
(* uploads go on; the block-refs pass runs alone.                          *)
(***************************************************************************)

RepUuids == {1, 2, 3}
RepBlocks == {1, 2}
RepVersionKeys == {<<u>> : u \in RepUuids}
RepBlockRefKeys == {<<b, u>> : b \in RepBlocks, u \in RepUuids}
RepObjectStates == {"none", "Uploading", "Complete", "Aborted"}
RepRowStates == {"absent", "live", "deleted"}

\* The order of the keys of a tree: byte strings, compared byte by byte.
RECURSIVE KeyLess(_, _)
KeyLess(a, b) ==
    IF b = << >> THEN FALSE
    ELSE IF a = << >> THEN TRUE
    ELSE IF Head(a) # Head(b) THEN Head(a) < Head(b)
    ELSE KeyLess(Tail(a), Tail(b))

\* The keys of the rows of the table the pass scans.
RepStoreKeys ==
    IF repPass = "versions"
    THEN {k \in RepVersionKeys : repVersions[k[1]] # "absent"}
    ELSE {k \in RepBlockRefKeys : repBlockRefs[k] # "absent"}

\* The row of a key
RepRow(k) == IF repPass = "versions" THEN repVersions[k[1]] ELSE repBlockRefs[k]

\* get_next_version_after / get_next_block_ref_after: the first row of
\* range((Excluded(pos), Unbounded)), None if the range is empty
GetNextAfter(pos) ==
    LET after == {k \in RepStoreKeys : KeyLess(pos, k)}
    IN  IF after = {} THEN None
        ELSE Some(CHOOSE k \in after : \A k2 \in after : k2 = k \/ KeyLess(k, k2))

\* Any version of the uuid counts, whatever its state.
VersionExistsAnyState(objectState) == objectState # "none"
\* repair_versions: the object has a version of the uuid that is not Aborted
VersionExists(objectState) == objectState \in {"Uploading", "Complete"}

\* A version that exists counts, deleted or not.
RefExistsIfPresent(versionRow) == versionRow # "absent"
\* repair_block_ref: the version exists and is not deleted
RefExists(versionRow) == versionRow = "live"

RepInit ==
    /\ repPass \in {"versions", "block_refs"}
    /\ repObjects \in [RepUuids -> RepObjectStates]
    /\ repVersions \in [RepUuids -> RepRowStates]
    /\ repBlockRefs \in [RepBlockRefKeys -> RepRowStates]
    /\ repPass = "versions" => repBlockRefs = [k \in RepBlockRefKeys |-> "absent"]
    /\ repPass = "block_refs" => repObjects = [u \in RepUuids |-> "none"]
    /\ repBlockRefs0 = repBlockRefs
    /\ repPos = << >>
    /\ repPc = "next"
    /\ repFound = FALSE
    /\ repVisited = << >>
    /\ repSeen = [k \in RepVersionKeys \cup RepBlockRefKeys |-> "unseen"]
    /\ repTombstoned = {}

RepIdle ==
    /\ repPass = None
    /\ repObjects = None
    /\ repVersions = None
    /\ repBlockRefs = None
    /\ repBlockRefs0 = None
    /\ repPos = None
    /\ repPc = None
    /\ repFound = None
    /\ repVisited = None
    /\ repSeen = None
    /\ repTombstoned = None

\* The head of the loop: the next row after pos is read and pos moves to its
\* key; a deleted row is skipped; with no row left the pass returns Ok.
RepairNextItem ==
    LET item == GetNextAfter(repPos)
    IN  /\ repPc = "next"
        /\ IF item = None
           THEN /\ repPc' = "done"
                /\ UNCHANGED <<repPos, repVisited>>
           ELSE /\ repPos' = item[1]
                /\ repVisited' = Append(repVisited, item[1])
                /\ repPc' = IF RepRow(item[1]) = "deleted" THEN "next" ELSE "lookup"
        /\ UNCHANGED <<repPass, repObjects, repVersions, repBlockRefs, repBlockRefs0,
                       repFound, repSeen, repTombstoned, notRepVars>>

\* repair_versions: object_table.get and the test of its versions
RepairVersionsLookup ==
    /\ repPass = "versions" /\ repPc = "lookup"
    /\ repFound' = VersionExists(repObjects[repPos[1]])
    /\ repSeen' = [repSeen EXCEPT ![repPos] = repObjects[repPos[1]]]
    /\ repPc' = IF repFound' THEN "exit_check" ELSE "insert"
    /\ UNCHANGED <<repPass, repObjects, repVersions, repBlockRefs, repBlockRefs0, repPos,
                   repVisited, repTombstoned, notRepVars>>

\* repair_versions: version_table.insert of Version::new(.., deleted = true)
RepairVersionsInsert ==
    /\ repPass = "versions" /\ repPc = "insert"
    /\ repVersions' = [repVersions EXCEPT ![repPos[1]] = "deleted"]
    /\ repTombstoned' = repTombstoned \cup {repPos}
    /\ repPc' = "exit_check"
    /\ UNCHANGED <<repPass, repObjects, repBlockRefs, repBlockRefs0, repPos, repFound,
                   repVisited, repSeen, notRepVars>>

\* repair_block_ref: version_table.get and the test of its deleted flag
RepairBlockRefLookup ==
    /\ repPass = "block_refs" /\ repPc = "lookup"
    /\ repFound' = RefExists(repVersions[repPos[2]])
    /\ repSeen' = [repSeen EXCEPT ![repPos] = repVersions[repPos[2]]]
    /\ repPc' = IF repFound' THEN "exit_check" ELSE "insert"
    /\ UNCHANGED <<repPass, repObjects, repVersions, repBlockRefs, repBlockRefs0, repPos,
                   repVisited, repTombstoned, notRepVars>>

\* repair_block_ref: block_ref_table.insert of BlockRef { deleted: true }
RepairBlockRefInsert ==
    /\ repPass = "block_refs" /\ repPc = "insert"
    /\ repBlockRefs' = [repBlockRefs EXCEPT ![repPos] = "deleted"]
    /\ repTombstoned' = repTombstoned \cup {repPos}
    /\ repPc' = "exit_check"
    /\ UNCHANGED <<repPass, repObjects, repVersions, repBlockRefs0, repPos, repFound,
                   repVisited, repSeen, notRepVars>>

\* The end of the loop body: must_exit breaks the loop, otherwise it goes on.
RepairExitCheck(mustExit) ==
    /\ repPc = "exit_check"
    /\ repPc' = IF mustExit THEN "stopped" ELSE "next"
    /\ UNCHANGED <<repPass, repObjects, repVersions, repBlockRefs, repBlockRefs0, repPos,
                   repFound, repVisited, repSeen, repTombstoned, notRepVars>>

\* A read of the store, a get or an insert fails (the `?`): the pass returns
\* the error.
RepairFails ==
    /\ repPc \in {"next", "lookup", "insert"}
    /\ repPc' = "failed"
    /\ UNCHANGED <<repPass, repObjects, repVersions, repBlockRefs, repBlockRefs0, repPos,
                   repFound, repVisited, repSeen, repTombstoned, notRepVars>>

\* ---- uploads that go on during the versions pass ----

\* save_stream inserts the Uploading version of a new uuid in the object
RepPutUploading(u) ==
    /\ repObjects[u] = "none" /\ repVersions[u] = "absent"
    /\ repObjects' = [repObjects EXCEPT ![u] = "Uploading"]
    /\ UNCHANGED <<repPass, repVersions, repBlockRefs, repBlockRefs0, repPos, repPc,
                   repFound, repVisited, repSeen, repTombstoned, notRepVars>>

\* save_stream then inserts the Version row
RepPutVersion(u) ==
    /\ repObjects[u] = "Uploading" /\ repVersions[u] = "absent"
    /\ repVersions' = [repVersions EXCEPT ![u] = "live"]
    /\ UNCHANGED <<repPass, repObjects, repBlockRefs, repBlockRefs0, repPos, repPc,
                   repFound, repVisited, repSeen, repTombstoned, notRepVars>>

\* The upload ends: Complete is inserted, or Aborted by the drop guard.
RepPutEnds(state) ==
    \E u \in RepUuids :
        /\ repObjects[u] = "Uploading"
        /\ repObjects' = [repObjects EXCEPT ![u] = state]
        /\ UNCHANGED <<repPass, repVersions, repBlockRefs, repBlockRefs0, repPos, repPc,
                       repFound, repVisited, repSeen, repTombstoned, notRepVars>>

\* A later complete version of the object makes the merge drop the version.
RepObjectDropsVersion(u) ==
    /\ repObjects[u] \in {"Complete", "Aborted"}
    /\ repObjects' = [repObjects EXCEPT ![u] = "none"]
    /\ UNCHANGED <<repPass, repVersions, repBlockRefs, repBlockRefs0, repPos, repPc,
                   repFound, repVisited, repSeen, repTombstoned, notRepVars>>

RepVersionsNext ==
    \/ repPass = "versions" /\ RepairNextItem
    \/ RepairVersionsLookup
    \/ RepairVersionsInsert
    \/ \E mustExit \in BOOLEAN : repPass = "versions" /\ RepairExitCheck(mustExit)
    \/ repPass = "versions" /\ RepairFails
    \/ \E u \in RepUuids : repPass = "versions" /\ RepPutUploading(u)
    \/ \E u \in RepUuids : repPass = "versions" /\ RepPutVersion(u)
    \/ \E state \in {"Complete", "Aborted"} : repPass = "versions" /\ RepPutEnds(state)
    \/ \E u \in RepUuids : repPass = "versions" /\ RepObjectDropsVersion(u)

RepBlockRefsNext ==
    \/ repPass = "block_refs" /\ RepairNextItem
    \/ RepairBlockRefLookup
    \/ RepairBlockRefInsert
    \/ \E mustExit \in BOOLEAN : repPass = "block_refs" /\ RepairExitCheck(mustExit)
    \/ repPass = "block_refs" /\ RepairFails

\* The keys of a sequence are in strictly increasing order.
RepStrictlyIncreasing(keys) ==
    \A i \in 1..(Len(keys) - 1) : KeyLess(keys[i], keys[i + 1])

C23_BlockRefsReferToLiveVersions ==
    repPass = "block_refs" =>
        /\ RepStrictlyIncreasing(repVisited)
        /\ repPc = "done" =>
              /\ \A k \in RepBlockRefKeys :
                    repBlockRefs[k] = "live" => repVersions[k[2]] = "live"
              /\ \A k \in RepBlockRefKeys :
                    repVersions[k[2]] = "live" => repBlockRefs[k] = repBlockRefs0[k]
              /\ {repVisited[i] : i \in 1..Len(repVisited)} = RepStoreKeys

\* C23, its case: the pass has run to its end over a store that had live
\* block refs of a live version, of a deleted version and of a missing one.
C23_Witness ==
    /\ repPass = "block_refs" /\ repPc = "done"
    /\ \E k \in RepBlockRefKeys : repBlockRefs0[k] = "live" /\ repVersions[k[2]] = "live"
    /\ \E k \in RepBlockRefKeys : repBlockRefs0[k] = "live" /\ repVersions[k[2]] = "deleted"
    /\ \E k \in RepBlockRefKeys : repBlockRefs0[k] = "live" /\ repVersions[k[2]] = "absent"

(***************************************************************************)
(*                 THE SCRUB WORKER (block/repair.rs)                      *)
(*                                                                         *)
(* Times are in milliseconds, as now_msec() gives them; a Duration is      *)
(* kept in milliseconds too. The interval and the number of milliseconds   *)
(* in a second are scaled down.                                            *)
(***************************************************************************)

\* SCRUB_INTERVAL, in seconds of the model.
ScrubIntervalSecs == 2
\* Milliseconds in a second of the model.
MsPerSec == 2
\* The time the model runs for.
MaxScrNow == 7
\* Block files in the data directory.
NumScrBlocks == 2

ScrCmds == {<<"Start", 0>>, <<"Pause", 1>>, <<"Pause", 2>>, <<"Resume", 0>>, <<"Cancel", 0>>,
            <<"SetTranquility", 1>>}

\* Duration::from_secs and Duration::from_millis, in milliseconds
DurationFromSecs(n) == n * MsPerSec
DurationFromMillis(n) == n

\* A sleep that does not end while the model runs.
ScrNever == MaxScrNow + 1

\* handle_cmd where Resume starts the sweep again, with a new iterator.
HandleCmdResumeRestarts(cmd, st) ==
    IF cmd[1] = "Start"
    THEN IF st.work = "Finished" THEN [st EXCEPT !.work = "Running", !.pos = 0] ELSE st
    ELSE IF cmd[1] = "Pause"
    THEN IF st.work \in {"Running", "Paused"}
         THEN [st EXCEPT !.work = "Paused", !.resume = scrNow + DurationFromMillis(cmd[2])]
         ELSE st
    ELSE IF cmd[1] = "Resume"
    THEN IF st.work = "Paused"
         THEN [st EXCEPT !.work = "Running", !.pos = 0, !.resume = 0]
         ELSE st
    ELSE IF cmd[1] = "Cancel"
    THEN IF st.work \in {"Running", "Paused"}
         THEN [st EXCEPT !.work = "Finished", !.pos = 0, !.resume = 0]
         ELSE st
    ELSE st

\* ScrubWorker::handle_cmd on the state [work, pos, resume]
HandleCmd(cmd, st) ==
    IF cmd[1] = "Start"
    THEN IF st.work = "Finished" THEN [st EXCEPT !.work = "Running", !.pos = 0] ELSE st
    ELSE IF cmd[1] = "Pause"
    THEN IF st.work \in {"Running", "Paused"}
         THEN [st EXCEPT !.work = "Paused", !.resume = scrNow + DurationFromMillis(cmd[2])]
         ELSE st
    ELSE IF cmd[1] = "Resume"
    THEN IF st.work = "Paused" THEN [st EXCEPT !.work = "Running", !.resume = 0] ELSE st
    ELSE IF cmd[1] = "Cancel"
    THEN IF st.work \in {"Running", "Paused"}
         THEN [st EXCEPT !.work = "Finished", !.pos = 0, !.resume = 0]
         ELSE st
    ELSE st

ScrState == [work |-> scrWork, pos |-> scrPos, resume |-> scrResume]

\* The status wait_for_work returns
ScrStatusOf(work) == IF work = "Running" THEN "Busy" ELSE "Idle"

ScrInit ==
    /\ scrNow = 1
    /\ scrPersisted = None
    /\ scrLast = 0
    /\ scrWork = "Finished"
    /\ scrPos = 0
    /\ scrResume = 0
    /\ scrStatus = "Busy"
    /\ scrWake = None
    /\ scrRestart = None
    /\ scrAutoStart = None

ScrIdle ==
    /\ scrNow = None
    /\ scrPersisted = None
    /\ scrLast = None
    /\ scrWork = None
    /\ scrPos = None
    /\ scrResume = None
    /\ scrStatus = None
    /\ scrWake = None
    /\ scrRestart = None
    /\ scrAutoStart = None

\* ScrubWorker::work: a waiting command is handled, then a running sweep reads
\* its next block, or ends: the time is kept and persisted, the state is
\* Finished.
ScrubWork(cmds) ==
    LET st == IF cmds = << >> THEN ScrState ELSE HandleCmd(cmds[1], ScrState)
    IN  /\ scrStatus = "Busy"
        /\ scrRestart' = None
        /\ IF st.work = "Running"
           THEN IF st.pos < NumScrBlocks
                THEN /\ scrWork' = "Running"
                     /\ scrPos' = st.pos + 1
                     /\ scrStatus' = "Busy"
                     /\ UNCHANGED <<scrLast, scrPersisted>>
                ELSE /\ scrLast' = scrNow
                     /\ scrPersisted' = Some(scrNow)
                     /\ scrWork' = "Finished"
                     /\ scrPos' = 0
                     /\ scrStatus' = "Idle"
           ELSE /\ scrWork' = st.work
                /\ scrPos' = st.pos
                /\ scrStatus' = "Idle"
                /\ UNCHANGED <<scrLast, scrPersisted>>
        /\ scrResume' = st.resume
        /\ UNCHANGED <<scrNow, scrWake, scrAutoStart, notScrVars>>

\* ScrubWorker::wait_for_work up to its select!: Running returns Busy; Paused
\* sleeps for resume_time - now_msec(), a subtraction of u64 that panics or
\* wraps when the time has passed; Finished sleeps for SCRUB_INTERVAL -
\* Duration::from_secs(now_msec() - time_last_complete_scrub), a subtraction
\* of Durations that panics when the result would be negative.
ScrubWaitForWork(wraps) ==
    /\ scrStatus = "Idle"
    /\ scrWake = None
    /\ scrRestart' = None
    /\ IF scrWork = "Running"
       THEN scrStatus' = "Busy" /\ UNCHANGED scrWake
       ELSE IF scrWork = "Paused"
       THEN IF scrResume >= scrNow
            THEN scrWake' = Some(scrNow + DurationFromMillis(scrResume - scrNow))
                 /\ UNCHANGED scrStatus
            ELSE IF wraps
                 THEN scrWake' = Some(ScrNever) /\ UNCHANGED scrStatus
                 ELSE scrStatus' = "Panicked" /\ UNCHANGED scrWake
       ELSE IF DurationFromSecs(scrNow - scrLast) <= DurationFromSecs(ScrubIntervalSecs)
            THEN scrWake' = Some(scrNow + DurationFromSecs(ScrubIntervalSecs)
                                        - DurationFromSecs(scrNow - scrLast))
                 /\ UNCHANGED scrStatus
            ELSE scrStatus' = "Panicked" /\ UNCHANGED scrWake
    /\ UNCHANGED <<scrNow, scrPersisted, scrLast, scrWork, scrPos, scrResume, scrAutoStart,
                   notScrVars>>

\* The sleep of wait_for_work is over: a paused sweep resumes, a finished
\* worker starts a sweep.
ScrubSleepOver ==
    LET st == HandleCmd(IF scrWork = "Paused" THEN <<"Resume", 0>> ELSE <<"Start", 0>>,
                        ScrState)
    IN  /\ scrStatus = "Idle"
        /\ scrWake # None
        /\ scrNow >= scrWake[1]
        /\ scrWork' = st.work
        /\ scrPos' = st.pos
        /\ scrResume' = st.resume
        /\ scrStatus' = ScrStatusOf(st.work)
        /\ scrWake' = None
        /\ scrAutoStart' = IF scrWork = "Finished"
                           THEN Some([at |-> scrNow, last |-> scrLast])
                           ELSE scrAutoStart
        /\ UNCHANGED <<scrNow, scrPersisted, scrLast, scrRestart, notScrVars>>

\* A command arrives during the sleep of wait_for_work.
ScrubWaitCmd(cmd) ==
    LET st == HandleCmd(cmd, ScrState)
    IN  /\ scrStatus = "Idle"
        /\ scrWake # None
        /\ scrWork' = st.work
        /\ scrPos' = st.pos
        /\ scrResume' = st.resume
        /\ scrStatus' = ScrStatusOf(st.work)
        /\ scrWake' = None
        /\ UNCHANGED <<scrNow, scrPersisted, scrLast, scrRestart, scrAutoStart, notScrVars>>

\* A millisecond passes; a sleep ends at its deadline.
ScrubTimePasses ==
    /\ scrNow < MaxScrNow
    /\ scrStatus # "Panicked"
    /\ scrWake # None => scrNow < scrWake[1]
    /\ scrNow' = scrNow + 1
    /\ scrRestart' = None
    /\ UNCHANGED <<scrPersisted, scrLast, scrWork, scrPos, scrResume, scrStatus, scrWake,
                   scrAutoStart, notScrVars>>

\* The node restarts: ScrubWorker::new reads the persisted time and starts
\* in the Finished state.
ScrubRestart ==
    /\ scrRestart = None
    /\ scrRestart' = Some([work |-> scrWork, pos |-> scrPos])
    /\ scrLast' = IF scrPersisted = None THEN 0 ELSE scrPersisted[1]
    /\ scrWork' = "Finished"
    /\ scrPos' = 0
    /\ scrResume' = 0
    /\ scrStatus' = "Busy"
    /\ scrWake' = None
    /\ UNCHANGED <<scrNow, scrPersisted, scrAutoStart, notScrVars>>

ScrNext ==
    \/ \E cmds \in {<< >>} \cup {<<c>> : c \in ScrCmds} : ScrubWork(cmds)
    \/ \E wraps \in BOOLEAN : ScrubWaitForWork(wraps)
    \/ ScrubSleepOver
    \/ \E cmd \in ScrCmds : ScrubWaitCmd(cmd)
    \/ ScrubTimePasses
    \/ ScrubRestart

\* C24: a node restarted while a sweep was Running or Paused has a scrub
\* worker that is in that state again, at the position the sweep had
\* reached.
C24_ScrubResumesAfterRestart ==
    (scrRestart # None /\ scrRestart[1].work \in {"Running", "Paused"})
        => (scrWork = scrRestart[1].work /\ scrPos = scrRestart[1].pos)

\* C25: the computation of the wait never panics or underflows, in the
\* Finished and in the Paused state, and the sleep of the Finished state
\* starts a sweep when SCRUB_INTERVAL has passed since
\* time_last_complete_scrub and not later than that once the worker waits.
C25_ScrubStartsAfterInterval ==
    /\ scrStatus # "Panicked"
    /\ scrWake # None => scrWake[1] # ScrNever
    /\ scrAutoStart # None =>
          scrAutoStart[1].at >= scrAutoStart[1].last + ScrubIntervalSecs * MsPerSec
    /\ (scrWork = "Finished" /\ scrWake # None) =>
          scrWake[1] <= Max2(scrNow, scrLast + ScrubIntervalSecs * MsPerSec)

\* The state the worker has after a command, as the table of the
\* specification gives it: the state itself and whether the iterator is
\* fresh, kept or dropped.
ScrStateAfter(cmd, work) ==
    CASE cmd[1] = "Start" /\ work = "Finished" -> [work |-> "Running", iter |-> "fresh"]
      [] cmd[1] = "Pause" /\ work \in {"Running", "Paused"} -> [work |-> "Paused", iter |-> "kept"]
      [] cmd[1] = "Resume" /\ work = "Paused" -> [work |-> "Running", iter |-> "kept"]
      [] cmd[1] = "Cancel" /\ work \in {"Running", "Paused"} ->
            [work |-> "Finished", iter |-> "dropped"]
      [] OTHER -> [work |-> work, iter |-> "kept"]

\* C35: in every state the worker reaches, every command gives the state of
\* the table: Start makes a Finished worker Running with a fresh iterator,
\* Pause(d) makes a Running or Paused worker Paused until now + d with its
\* iterator, Resume makes a Paused worker Running with its iterator, Cancel
\* makes a Running or Paused worker Finished, and every other command and
\* state, SetTranquility in any state included, leaves the state as it is.
C35_CommandsChangeStateAsListed ==
    \A cmd \in ScrCmds :
        LET after == HandleCmd(cmd, ScrState)
            table == ScrStateAfter(cmd, scrWork)
        IN  /\ after.work = table.work
            /\ table.iter = "fresh" => after.pos = 0
            /\ (table.iter = "kept" /\ after.work # "Finished") => after.pos = scrPos
            /\ (cmd[1] = "Pause" /\ after.work = "Paused") =>
                  after.resume = scrNow + DurationFromMillis(cmd[2])
            /\ (table.work = scrWork /\ cmd[1] # "Pause") => after = ScrState

\* C35, its case: a command paused a sweep that had read blocks, and the
\* worker waits with the iterator where the sweep was.
C35_Witness ==
    /\ scrWork = "Paused" /\ scrPos > 0 /\ scrResume > scrNow
    /\ scrStatus = "Idle" /\ scrWake # None

(***************************************************************************)
(*                THE BLOCK REPAIR WORKER (block/repair.rs)                *)
(*                                                                         *)
(* Phase 1 reads the rc tree in batches and puts every hash to resync;     *)
(* phase 2 walks the data directory. Each call of work() does one batch    *)
(* or one directory entry; a call that returns an error is followed by     *)
(* another call. The directory tree is flattened to the sequence of the    *)
(* entries the iterator meets.                                             *)
(***************************************************************************)

\* Hashes of blocks, in the order of their bytes.
NumBrHashes == 3
BrHashes == 1..NumBrHashes
\* The size of a batch of phase 1 (1000 in the program).
RepairBatchSize == 2
\* Calls of work() that return an error.
MaxBrErrors == 1

\* An entry of the data directory: the file of a block, plain or compressed,
\* or a file with another name.
BrEntries == [hash : BrHashes, kind : {"plain", "zst"}] \cup {[hash |-> 0, kind |-> "other"]}
BrDirectories ==
    { << >>,
      <<[hash |-> 1, kind |-> "plain"], [hash |-> 0, kind |-> "other"],
        [hash |-> 3, kind |-> "zst"]>>,
      <<[hash |-> 2, kind |-> "zst"], [hash |-> 2, kind |-> "plain"]>> }

\* The first n elements of a set of numbers, in increasing order.
RECURSIVE FirstOf(_, _)
FirstOf(set, n) ==
    IF n = 0 \/ set = {} THEN << >>
    ELSE LET m == CHOOSE x \in set : \A y \in set : x <= y
         IN  <<m>> \o FirstOf(set \ {m}, n - 1)

\* rc.range((start_bound, Unbounded)): Unbounded at first, then Excluded(next_start)
RcRangeAfterCursor(nextStart) ==
    IF nextStart = None THEN brRc ELSE {h \in brRc : h > nextStart[1]}

BrInit ==
    /\ brRc \in SUBSET BrHashes
    /\ brRcThroughout = brRc
    /\ brFiles \in BrDirectories
    /\ brNextStart = None
    /\ brIter = None
    /\ brRangeAtSwitch = None
    /\ brQueue = {}
    /\ brStatus = "Busy"
    /\ brErrors = 0

BrIdle ==
    /\ brRc = None
    /\ brRcThroughout = None
    /\ brFiles = None
    /\ brNextStart = None
    /\ brIter = None
    /\ brRangeAtSwitch = None
    /\ brQueue = None
    /\ brStatus = None
    /\ brErrors = None

\* work() in phase 1: a batch is read; an empty batch starts phase 2;
\* otherwise the hashes are put to resync one by one, next_start following,
\* until the end of the batch or the first put_to_resync that fails (after
\* `puts` of them succeeded).
RepairWorkPhase1(puts) ==
    LET batch == FirstOf(RcRangeAfterCursor(brNextStart), RepairBatchSize)
    IN  /\ brStatus = "Busy" /\ brIter = None
        /\ puts \in 0..Len(batch)
        /\ IF batch = << >>
           THEN /\ brIter' = Some(0)
                /\ brRangeAtSwitch' = Some(RcRangeAfterCursor(brNextStart))
                /\ UNCHANGED <<brNextStart, brQueue, brErrors>>
           ELSE /\ puts < Len(batch) => brErrors < MaxBrErrors
                /\ brQueue' = brQueue \cup {<<batch[i], 1>> : i \in 1..puts}
                /\ brNextStart' = IF puts = 0 THEN brNextStart ELSE Some(batch[puts])
                /\ brErrors' = IF puts < Len(batch) THEN brErrors + 1 ELSE brErrors
                /\ UNCHANGED <<brIter, brRangeAtSwitch>>
        /\ UNCHANGED <<brRc, brRcThroughout, brFiles, brStatus, notBrVars>>

\* BlockStoreIterator::next from position pos: entries that are not the file
\* of a block are passed over; the result is the position after the entry
\* returned, or after the last entry if none is left.
RECURSIVE BlockStoreIteratorNext(_)
BlockStoreIteratorNext(pos) ==
    IF pos >= Len(brFiles) THEN [pos |-> pos, hash |-> None]
    ELSE IF brFiles[pos + 1].kind = "other" THEN BlockStoreIteratorNext(pos + 1)
    ELSE [pos |-> pos + 1, hash |-> Some(brFiles[pos + 1].hash)]

\* work() in phase 2: the next block file of the directory is put to resync;
\* with no file left the worker is Done. put_to_resync may fail: work()
\* returns the error, the iterator has moved on.
RepairWorkPhase2(putOk) ==
    LET nxt == BlockStoreIteratorNext(brIter[1])
    IN  /\ brStatus = "Busy" /\ brIter # None
        /\ brIter' = Some(nxt.pos)
        /\ IF nxt.hash = None
           THEN /\ putOk
                /\ brStatus' = "Done"
                /\ UNCHANGED <<brQueue, brErrors>>
           ELSE IF putOk
           THEN /\ brQueue' = brQueue \cup {<<nxt.hash[1], 2>>}
                /\ UNCHANGED <<brStatus, brErrors>>
           ELSE /\ brErrors < MaxBrErrors
                /\ brErrors' = brErrors + 1
                /\ UNCHANGED <<brStatus, brQueue>>
        /\ UNCHANGED <<brRc, brRcThroughout, brFiles, brNextStart, brRangeAtSwitch,
                       notBrVars>>

\* During phase 1 references are added and removed: rows of the rc tree
\* appear and disappear.
BrRcRowAdded(h) ==
    /\ brStatus = "Busy" /\ brIter = None
    /\ h \notin brRc
    /\ brRc' = brRc \cup {h}
    /\ UNCHANGED <<brRcThroughout, brFiles, brNextStart, brIter, brRangeAtSwitch, brQueue,
                   brStatus, brErrors, notBrVars>>

BrRcRowRemoved(h) ==
    /\ brStatus = "Busy" /\ brIter = None
    /\ h \in brRc
    /\ brRc' = brRc \ {h}
    /\ brRcThroughout' = brRcThroughout \ {h}
    /\ UNCHANGED <<brFiles, brNextStart, brIter, brRangeAtSwitch, brQueue, brStatus,
                   brErrors, notBrVars>>

BrNext ==
    \/ \E puts \in 0..RepairBatchSize : RepairWorkPhase1(puts)
    \/ \E putOk \in BOOLEAN : RepairWorkPhase2(putOk)
    \/ \E h \in BrHashes : BrRcRowAdded(h)
    \/ \E h \in BrHashes : BrRcRowRemoved(h)

\* C26: phase 1 puts to resync every hash that is in the rc tree throughout
\* phase 1, phase 2 starts only when the range after the cursor is empty,
\* phase 2 puts to resync the hash of every block file of the data
\* directory, and the worker is Done exactly when the iterator is exhausted.
C26_RepairEnqueuesEveryHash ==
    /\ brIter # None =>
          /\ \A h \in brRcThroughout : <<h, 1>> \in brQueue
          /\ brRangeAtSwitch = Some({})
    /\ brStatus = "Done" =>
          /\ brIter = Some(Len(brFiles))
          /\ \A i \in 1..Len(brFiles) :
                brFiles[i].kind # "other" => <<brFiles[i].hash, 2>> \in brQueue

(***************************************************************************)
(*        THE WORKER PROCESSOR (util/background/worker.rs, job_worker.rs)  *)
(*                                                                         *)
(* WorkerProcessor::run keeps the step() futures of its workers in a       *)
(* FuturesUnordered; a future that completes gives its worker back, and    *)
(* the worker is pushed again unless its status is Done.                   *)
(***************************************************************************)

\* Workers of the processor: the first is a JobWorker, the second a worker
\* whose work() and wait_for_work() may return anything, the others are
\* RepairWorkers of the block manager.
NumWorkers == 3
Workers == 1..NumWorkers
WorkerKind(w) == IF w = 1 THEN "job" ELSE IF w = 2 THEN "any" ELSE "repair"

WorkerStatuses == {"Busy", "Idle", "Done"}

\* An error ends the worker.
StatusAfterErrorIsDone(status) == "Done"
\* WorkerHandler::step, the arm Err(e) of work(): the status is not assigned
StatusAfterError(status) == status

WkInit ==
    /\ wkStatus = [w \in Workers |-> "Busy"]
    /\ wkPc = [w \in Workers |-> "step"]
    /\ wkNextJob = [w \in Workers |-> FALSE]
    /\ wkAfterErr = [w \in Workers |-> FALSE]
    /\ wkRemoved = [w \in Workers |-> "no"]
    /\ wkStop = FALSE

WkIdle ==
    /\ wkStatus = None
    /\ wkPc = None
    /\ wkNextJob = None
    /\ wkAfterErr = None
    /\ wkRemoved = None
    /\ wkStop = None

\* What work() of the worker may return: a JobWorker without a job returns
\* Idle, with a job it runs the job and returns Busy or the error of the
\* job; a RepairWorker returns Busy, Done or an error; another worker
\* returns anything.
WorkResults(w) ==
    IF WorkerKind(w) = "job"
    THEN IF wkNextJob[w] THEN {"Busy", "Err"} ELSE {"Idle"}
    ELSE IF WorkerKind(w) = "repair"
    THEN {"Busy", "Done", "Err"}
    ELSE {"Busy", "Idle", "Done", "Err"}

\* step() of a Busy worker: work() is called. Ok(s) sets the status and the
\* future completes; an error is logged and the future sleeps 10 seconds.
WorkerWork(w, res) ==
    /\ wkPc[w] = "step" /\ wkStatus[w] = "Busy"
    /\ res \in WorkResults(w)
    /\ wkNextJob' = [wkNextJob EXCEPT ![w] = FALSE]
    /\ IF res = "Err"
       THEN /\ wkStatus' = [wkStatus EXCEPT ![w] = StatusAfterError(@)]
            /\ wkPc' = [wkPc EXCEPT ![w] = "backoff"]
            /\ wkAfterErr' = [wkAfterErr EXCEPT ![w] = TRUE]
       ELSE /\ wkStatus' = [wkStatus EXCEPT ![w] = res]
            /\ wkPc' = [wkPc EXCEPT ![w] = "returned"]
            /\ wkAfterErr' = [wkAfterErr EXCEPT ![w] = FALSE]
    /\ UNCHANGED <<wkRemoved, wkStop, notWkVars>>

\* The sleep after an error is over: the future completes.
WorkerBackoffOver(w) ==
    /\ wkPc[w] = "backoff"
    /\ wkPc' = [wkPc EXCEPT ![w] = "returned"]
    /\ UNCHANGED <<wkStatus, wkNextJob, wkAfterErr, wkRemoved, wkStop, notWkVars>>

\* step() of an Idle worker: wait_for_work() returns a status (a JobWorker
\* got a job, or its channel is closed), or the stop signal or the sleep of
\* one second ends the select! and the worker stays Idle. The
\* wait_for_work() of a RepairWorker is unreachable!(), and so is the arm
\* Done of the match of step(): they panic.
WorkerWaitForWork(w, res) ==
    /\ wkPc[w] = "step" /\ wkStatus[w] # "Busy"
    /\ res \in (IF WorkerKind(w) = "job" THEN {"Busy", "Done", "Idle"} ELSE WorkerStatuses)
    /\ res = "Idle" /\ WorkerKind(w) = "job" => wkStop
    /\ IF wkStatus[w] = "Done" \/ WorkerKind(w) = "repair"
       THEN /\ res = "Idle"
            /\ wkPc' = [wkPc EXCEPT ![w] = "panicked"]
            /\ UNCHANGED <<wkStatus, wkNextJob>>
       ELSE /\ wkStatus' = [wkStatus EXCEPT ![w] = res]
            /\ wkNextJob' = [wkNextJob EXCEPT ![w] = (WorkerKind(w) = "job" /\ res = "Busy")]
            /\ wkPc' = [wkPc EXCEPT ![w] = "returned"]
    /\ UNCHANGED <<wkAfterErr, wkRemoved, wkStop, notWkVars>>

\* The processor pushes again every worker it takes back.
ProcessorPushesDoneWorkers(w, late) ==
    /\ wkPc[w] = "returned"
    /\ late => wkStop
    /\ IF late
       THEN /\ wkPc' = [wkPc EXCEPT ![w] = "removed"]
            /\ wkRemoved' = [wkRemoved EXCEPT ![w] = "interrupted"]
       ELSE /\ wkPc' = [wkPc EXCEPT ![w] = "step"]
            /\ UNCHANGED wkRemoved
    /\ UNCHANGED <<wkStatus, wkNextJob, wkAfterErr, wkStop, notWkVars>>

\* WorkerProcessor::run, the branch await_next_worker, and the same in
\* drain_everything: a worker that is Done is dropped, another is pushed
\* again; when the processor is exiting and half of the drain time has
\* passed, a worker that is not Done is dropped too.
ProcessorNextWorker(w, late) ==
    /\ wkPc[w] = "returned"
    /\ late => wkStop
    /\ IF wkStatus[w] = "Done"
       THEN /\ wkPc' = [wkPc EXCEPT ![w] = "removed"]
            /\ wkRemoved' = [wkRemoved EXCEPT ![w] = "Done"]
       ELSE IF late
       THEN /\ wkPc' = [wkPc EXCEPT ![w] = "removed"]
            /\ wkRemoved' = [wkRemoved EXCEPT ![w] = "interrupted"]
       ELSE /\ wkPc' = [wkPc EXCEPT ![w] = "step"]
            /\ UNCHANGED wkRemoved
    /\ UNCHANGED <<wkStatus, wkNextJob, wkAfterErr, wkStop, notWkVars>>

\* Garage is asked to exit: the stop signal is set.
WkStopSignal ==
    /\ ~wkStop
    /\ wkStop' = TRUE
    /\ UNCHANGED <<wkStatus, wkPc, wkNextJob, wkAfterErr, wkRemoved, notWkVars>>

\* WorkerProcessor::run, the last select!: 9 seconds after the stop signal
\* drain_everything is dropped, and with it the step() futures that have
\* not completed.
ProcessorDrainTimeout ==
    /\ wkStop
    /\ \E w \in Workers : wkPc[w] \in {"step", "backoff"}
    /\ wkPc' = [w \in Workers |->
                   IF wkPc[w] \in {"step", "backoff", "returned"} THEN "removed" ELSE wkPc[w]]
    /\ wkRemoved' = [w \in Workers |->
                   IF wkPc[w] \in {"step", "backoff"} THEN "cancelled"
                   ELSE IF wkPc[w] = "returned" THEN "interrupted" ELSE wkRemoved[w]]
    /\ UNCHANGED <<wkStatus, wkNextJob, wkAfterErr, wkStop, notWkVars>>

WkNext ==
    \/ \E w \in Workers, res \in WorkerStatuses \cup {"Err"} : WorkerWork(w, res)
    \/ \E w \in Workers : WorkerBackoffOver(w)
    \/ \E w \in Workers, res \in WorkerStatuses : WorkerWaitForWork(w, res)
    \/ \E w \in Workers, late \in BOOLEAN : ProcessorNextWorker(w, late)
    \/ WkStopSignal
    \/ ProcessorDrainTimeout

C36_WorkersAreSteppedByStatus ==
    \A w \in Workers :
        /\ wkPc[w] # "panicked"
        /\ wkPc[w] \in {"step", "backoff"} => wkStatus[w] # "Done"
        /\ WorkerKind(w) = "repair" => wkStatus[w] # "Idle"
        /\ wkPc[w] = "backoff" => wkStatus[w] = "Busy"
        /\ wkRemoved[w] = "cancelled" => wkStop
        /\ (wkPc[w] = "removed" /\ ~wkStop) => wkStatus[w] = "Done"

\* C36, its case: a RepairWorker whose work() returned an error is stepped
\* again, the worker that may return anything returned Done and was
\* dropped, and the JobWorker waits for work, before any stop signal.
C36_Witness ==
    /\ ~wkStop
    /\ \E w \in Workers :
          WorkerKind(w) = "repair" /\ wkAfterErr[w] /\ wkPc[w] = "step"
    /\ \E w \in Workers :
          WorkerKind(w) = "any" /\ wkRemoved[w] = "Done"
    /\ \E w \in Workers :
          WorkerKind(w) = "job" /\ wkStatus[w] = "Idle" /\ wkPc[w] = "step"

(***************************************************************************)
(*        TRANSACTIONS OF THE DB (db/lib.rs, db/sqlite_adapter.rs)         *)
(*                                                                         *)
(* Db::transaction wraps f in a TxFn that keeps f's result in a Cell, asks *)
(* the adapter to run it in a transaction of the engine (BEGIN, f, COMMIT  *)
(* or ROLLBACK, each of which may fail), and matches the adapter's result  *)
(* with the result f stored.                                               *)
(***************************************************************************)

NumTxTrees == 2
MaxTxOps == 2
TxKeys == {1, 2}
TxValues == {"plop", "plip"}
TxPayloads == {12, 42}
TxAbsent == "absent"
TxNoWrite == "no write"
TxCells == (1..NumTxTrees) \X TxKeys

TxInit ==
    /\ txTrees \in [TxCells -> {TxAbsent, "plop"}]
    /\ txBefore = txTrees
    /\ txOverlay = [c \in TxCells |-> TxNoWrite]
    /\ txPc = "idle"
    /\ txFres = None
    /\ txRet = None
    /\ txReadOk = TRUE
    /\ txOps = 0

TxIdle ==
    /\ txTrees = None
    /\ txBefore = None
    /\ txOverlay = None
    /\ txPc = None
    /\ txFres = None
    /\ txRet = None
    /\ txReadOk = None
    /\ txOps = None

\* SqliteTx::internal_get: a SELECT on the transaction sees the rows the
\* transaction wrote, and the committed rows elsewhere.
TxInternalGet(cell) ==
    IF txOverlay[cell] # TxNoWrite THEN txOverlay[cell] ELSE txTrees[cell]

\* The trees once the writes of the transaction are committed.
TxCommitted == [c \in TxCells |-> TxInternalGet(c)]

\* Db::transaction up to the call of f: the adapter locks the Db and begins
\* a transaction of the engine. When BEGIN fails the adapter returns the
\* error, f was never called, and Db::transaction panics on the empty Cell
\* ("Transaction did not store result").
TransactionBegin(beginOk) ==
    /\ txPc \in {"idle", "returned"}
    /\ txBefore' = txTrees
    /\ txOverlay' = [c \in TxCells |-> TxNoWrite]
    /\ txFres' = None
    /\ txReadOk' = TRUE
    /\ txOps' = 0
    /\ IF beginOk
       THEN txPc' = "inTx" /\ txRet' = None
       ELSE txPc' = "returned" /\ txRet' = [kind |-> "panic", val |-> 0]
    /\ UNCHANGED <<txTrees, notTxVars>>

\* f calls tx.insert(tree, key, value): UPDATE or INSERT in the transaction
TxInsert(cell, value) ==
    /\ txPc = "inTx" /\ txOps < MaxTxOps
    /\ txOverlay' = [txOverlay EXCEPT ![cell] = value]
    /\ txOps' = txOps + 1
    /\ UNCHANGED <<txTrees, txBefore, txPc, txFres, txRet, txReadOk, notTxVars>>

\* f calls tx.remove(tree, key): DELETE in the transaction
TxRemove(cell) ==
    /\ txPc = "inTx" /\ txOps < MaxTxOps
    /\ txOverlay' = [txOverlay EXCEPT ![cell] = TxAbsent]
    /\ txOps' = txOps + 1
    /\ UNCHANGED <<txTrees, txBefore, txPc, txFres, txRet, txReadOk, notTxVars>>

\* f calls tx.get(tree, key)
TxGet(cell) ==
    /\ txPc = "inTx" /\ txOps < MaxTxOps
    /\ txReadOk' = (txReadOk /\ TxInternalGet(cell) =
                       IF txOverlay[cell] # TxNoWrite THEN txOverlay[cell] ELSE txBefore[cell])
    /\ txOps' = txOps + 1
    /\ UNCHANGED <<txTrees, txBefore, txOverlay, txPc, txFres, txRet, notTxVars>>

\* What Db::transaction returns, from the result of the adapter and the
\* result f stored in the Cell.
TransactionResult(txRes, ret) ==
    CASE txRes = "Ok" -> ret
      [] txRes = "Abort" -> ret
      [] txRes = "Db" /\ ret.kind \in {"Ok", "Db"} -> [kind |-> "Db", val |-> 0]
      [] OTHER -> [kind |-> "panic", val |-> 0]

\* f returns res; the adapter commits on Ok and rolls back otherwise, and
\* returns the error of the engine when COMMIT or ROLLBACK fails (the
\* transaction is then dropped, which rolls it back); Db::transaction
\* returns.
TxFnReturns(res, engineOk) ==
    /\ txPc = "inTx"
    /\ txFres' = Some(res)
    /\ txTrees' = IF res.kind = "Ok" /\ engineOk THEN TxCommitted ELSE txTrees
    /\ txRet' = TransactionResult(IF engineOk THEN res.kind ELSE "Db", res)
    /\ txPc' = "returned"
    /\ UNCHANGED <<txBefore, txOverlay, txReadOk, txOps, notTxVars>>

TxNext ==
    \/ \E beginOk \in BOOLEAN : TransactionBegin(beginOk)
    \/ \E cell \in TxCells, value \in TxValues : TxInsert(cell, value)
    \/ \E cell \in TxCells : TxRemove(cell)
    \/ \E cell \in TxCells : TxGet(cell)
    \/ \E kind \in {"Ok", "Abort", "Db"}, val \in TxPayloads, engineOk \in BOOLEAN :
          TxFnReturns([kind |-> kind, val |-> IF kind = "Db" THEN 0 ELSE val], engineOk)

\* C28: while f runs no write of f is in the trees and every read of f
\* observes f's earlier writes; when f returned Ok(r) the call returns Ok(r)
\* with all the writes in the trees (or the error of the engine with the
\* trees unchanged); when f returned Abort(e) the trees are unchanged and
\* the call returns Err(Abort(e)) (or the error of the engine).
C28_TransactionIsAtomic ==
    /\ txPc = "inTx" => txTrees = txBefore /\ txReadOk
    /\ txPc = "returned" /\ txFres # None =>
          /\ txReadOk
          /\ txFres[1].kind = "Ok" =>
                \/ txRet = txFres[1] /\ txTrees = TxCommitted
                \/ txRet.kind = "Db" /\ txTrees = txBefore
          /\ txFres[1].kind = "Abort" =>
                /\ txTrees = txBefore
                /\ txRet = txFres[1] \/ txRet.kind = "Db"

(***************************************************************************)
(*        THE MUTEX OF THE SQLITE ADAPTER (db/sqlite_adapter.rs)           *)
(*                                                                         *)
(* Every operation of SqliteDb locks the one Mutex of the connection. An   *)
(* operation outside an iterator releases it when it returns; an iterator  *)
(* (DbValueIterator) owns the MutexGuard until it is dropped.              *)
(***************************************************************************)

MaxSqlRounds == 2

\* The threads: the block repair worker in phase 1, the syncer offloading a
\* partition, the watcher in add_full_sync, and a thread that writes.
SqlThreads == {"repair", "offload", "full_sync", "writer"}
SqlScanners == SqlThreads \ {"writer"}

\* How many items the loop takes from its iterator before it ends: the
\* batch of the repair worker, the batch of offload_partition, and the one
\* next() of add_full_sync.
SqlLoopLimit(t) ==
    CASE t = "repair" -> RepairBatchSize
      [] t = "offload" -> OffloadBatchSize
      [] OTHER -> 1

\* The operations on the Db that follow the loop: a put_to_resync for each
\* hash of the batch, a delete_if_equal for each offloaded item, none in
\* add_full_sync.
SqlOpsAfterLoop(t, batch) == IF t = "full_sync" THEN 0 ELSE batch

\* The previous version of the repair worker: items are put to resync one by
\* one inside the loop on the iterator.
HoldsIteratorDuringOpsNaive(t) == t = "repair"
\* The iterator is a temporary of the for (or if) expression: it is dropped
\* when the loop ends, before the operations that follow.
HoldsIteratorDuringOps(t) == FALSE

SqlInit ==
    /\ sqlOwner = None
    /\ sqlPc = [t \in SqlThreads |-> IF t = "writer" THEN "idle" ELSE "open"]
    /\ sqlBatch = [t \in SqlThreads |-> 0]
    /\ sqlTodo = [t \in SqlThreads |-> 0]
    /\ sqlRounds = [t \in SqlThreads |-> 0]
    /\ sqlDelayed = FALSE

SqlIdle ==
    /\ sqlOwner = None
    /\ sqlPc = None
    /\ sqlBatch = None
    /\ sqlTodo = None
    /\ sqlRounds = None
    /\ sqlDelayed = None

\* The thread is in self.0.lock(), to make an iterator or an operation.
SqlWaiting(t) == sqlPc[t] \in {"open", "ops"}

\* Where a thread goes when a call of its function is over.
SqlAfterRound(t, again) ==
    IF again /\ sqlRounds[t] + 1 < MaxSqlRounds
    THEN IF t = "writer" THEN "idle" ELSE "open"
    ELSE "done"

\* tree.range(..): the Mutex is locked and the guard moves into the iterator
SqlRangeOpen(t) ==
    /\ t \in SqlScanners /\ sqlPc[t] = "open"
    /\ sqlOwner = None
    /\ sqlOwner' = Some(t)
    /\ sqlPc' = [sqlPc EXCEPT ![t] = "iter"]
    /\ sqlBatch' = [sqlBatch EXCEPT ![t] = 0]
    /\ UNCHANGED <<sqlTodo, sqlRounds, sqlDelayed, notSqlVars>>

\* One turn of the loop on the iterator: next() gives an item or the end.
\* The loop ends at the end of the range or when the batch is full; the
\* iterator is then dropped and the operations that follow are to do.
SqlIterNext(t, gotRow) ==
    /\ sqlPc[t] = "iter" /\ sqlOwner = Some(t)
    /\ sqlDelayed' = (sqlDelayed \/ SqlWaiting("writer"))
    /\ LET batch == IF gotRow THEN sqlBatch[t] + 1 ELSE sqlBatch[t]
           ends == ~gotRow \/ batch >= SqlLoopLimit(t)
           todo == SqlOpsAfterLoop(t, batch)
       IN  /\ sqlBatch' = [sqlBatch EXCEPT ![t] = IF ends THEN 0 ELSE batch]
           /\ IF ~ends
              THEN UNCHANGED <<sqlOwner, sqlPc, sqlTodo, sqlRounds>>
              ELSE /\ sqlOwner' = IF HoldsIteratorDuringOps(t) /\ todo > 0 THEN sqlOwner ELSE None
                   /\ sqlTodo' = [sqlTodo EXCEPT ![t] = todo]
                   /\ IF todo > 0
                      THEN sqlPc' = [sqlPc EXCEPT ![t] = "ops"] /\ UNCHANGED sqlRounds
                      ELSE /\ sqlPc' = [sqlPc EXCEPT ![t] = SqlAfterRound(t, t = "full_sync")]
                           /\ sqlRounds' = [sqlRounds EXCEPT ![t] = @ + 1]
    /\ UNCHANGED notSqlVars

\* A thread calls tree.insert (or another operation) of the Db.
SqlWriteCall ==
    /\ sqlPc["writer"] = "idle"
    /\ sqlPc' = [sqlPc EXCEPT !["writer"] = "ops"]
    /\ sqlTodo' = [sqlTodo EXCEPT !["writer"] = 1]
    /\ UNCHANGED <<sqlOwner, sqlBatch, sqlRounds, sqlDelayed, notSqlVars>>

\* An operation outside an iterator: lock() returns when no guard is alive,
\* the statement runs and the guard is dropped when the operation returns.
SqlOp(t) ==
    /\ sqlPc[t] = "ops"
    /\ sqlOwner = None
    /\ sqlTodo' = [sqlTodo EXCEPT ![t] = @ - 1]
    /\ IF sqlTodo[t] > 1
       THEN UNCHANGED <<sqlPc, sqlRounds>>
       ELSE /\ sqlPc' = [sqlPc EXCEPT ![t] = SqlAfterRound(t, TRUE)]
            /\ sqlRounds' = [sqlRounds EXCEPT ![t] = @ + 1]
    /\ UNCHANGED <<sqlOwner, sqlBatch, sqlDelayed, notSqlVars>>

SqlNext ==
    \/ \E t \in SqlThreads : SqlRangeOpen(t)
    \/ \E t \in SqlThreads, gotRow \in BOOLEAN : SqlIterNext(t, gotRow)
    \/ SqlWriteCall
    \/ \E t \in SqlThreads : SqlOp(t)

\* C29: the guard is held only by a thread that is in the loop on its
\* iterator, so no thread waits for a guard it holds itself and no operation
\* runs while an iterator is alive; and every thread that waits for the
\* Mutex gets it and finishes.
C29_WritersWaitForIteratorsWithoutDeadlock ==
    /\ [](\A t \in SqlThreads : sqlOwner = Some(t) => sqlPc[t] = "iter")
    /\ \A t \in SqlThreads : (SqlWaiting(t) ~> sqlPc[t] = "done")

\* C29, its case: the write of the writer waited while the iterator of
\* another thread advanced, and completed; the repair worker has dropped
\* its iterator and puts its batch to resync.
C29_Witness ==
    /\ sqlDelayed /\ sqlRounds["writer"] > 0
    /\ sqlPc["repair"] = "ops" /\ sqlTodo["repair"] > 1

(***************************************************************************)
(*        THE BODY OF A RANGED GET (api/s3/get.rs)                         *)
(*                                                                         *)
(* body_from_blocks_range keeps the blocks that intersect [begin, end),    *)
(* then fetches them in order; the stream of each block arrives in chunks, *)
(* and a scan on the offset of the chunk cuts each chunk to the range.     *)
(***************************************************************************)

MaxRgBlocks == 3
MaxRgBlockSize == 2

\* The lists of block sizes of a version stored in blocks.
RgSizeLists == UNION {[1..n -> 1..MaxRgBlockSize] : n \in 1..MaxRgBlocks}

RECURSIVE RgSum(_, _)
\* The size of the first n blocks.
RgSum(sizes, n) == IF n = 0 THEN 0 ELSE RgSum(sizes, n - 1) + sizes[n]

\* The bytes of the object: the byte at offset p of the object is named p.
RgObject(sizes) == [p \in 1..RgSum(sizes, Len(sizes)) |-> p - 1]

\* The data of block i: the bytes of the object that were stored in it.
RgBlockData(sizes, i) ==
    [j \in 1..sizes[i] |-> RgObject(sizes)[RgSum(sizes, i - 1) + j]]

\* Keeps also a block that ends where the range begins.
IntersectsInclusive(blockOffset, size, begin, end) ==
    blockOffset < end /\ blockOffset + size >= begin
\* The condition of the loop on all_blocks to keep a block
Intersects(blockOffset, size, begin, end) ==
    blockOffset < end /\ blockOffset + size > begin

RECURSIVE SelectBlocksFrom(_, _, _, _, _, _)
\* The loop on all_blocks, from block i at block_offset with blocks so far.
SelectBlocksFrom(sizes, begin, end, i, blockOffset, blocks) ==
    IF i > Len(sizes) \/ blockOffset >= end
    THEN blocks
    ELSE SelectBlocksFrom(sizes, begin, end, i + 1, blockOffset + sizes[i],
            IF Intersects(blockOffset, sizes[i], begin, end)
            THEN Append(blocks, <<i, blockOffset>>)
            ELSE blocks)

RgInit ==
    /\ rgSizes \in RgSizeLists
    /\ rgBegin \in 0..(RgSum(rgSizes, Len(rgSizes)) - 1)
    /\ rgEnd \in (rgBegin + 1)..RgSum(rgSizes, Len(rgSizes))
    /\ rgPc = "select"
    /\ rgBlocks = << >>
    /\ rgI = 0
    /\ rgPos = 0
    /\ rgChunkOffset = 0
    /\ rgBody = << >>
    /\ rgFetched = {}

RgIdle ==
    /\ rgSizes = None
    /\ rgBegin = None
    /\ rgEnd = None
    /\ rgPc = None
    /\ rgBlocks = None
    /\ rgI = None
    /\ rgPos = None
    /\ rgChunkOffset = None
    /\ rgBody = None
    /\ rgFetched = None

\* body_from_blocks_range up to the spawn: the blocks to fetch
RgSelectBlocks ==
    /\ rgPc = "select"
    /\ rgBlocks' = SelectBlocksFrom(rgSizes, rgBegin, rgEnd, 1, 0, << >>)
    /\ rgI' = 1
    /\ rgPc' = "fetch"
    /\ UNCHANGED <<rgSizes, rgBegin, rgEnd, rgPos, rgChunkOffset, rgBody, rgFetched, notRgVars>>

\* One turn of the loop of the spawned task: rpc_get_block_streaming of the
\* block, and the scan starts at the true offset of the block. After the
\* last block the body ends.
RgFetchBlock ==
    /\ rgPc = "fetch"
    /\ IF rgI > Len(rgBlocks)
       THEN /\ rgPc' = "done"
            /\ UNCHANGED <<rgPos, rgChunkOffset, rgFetched>>
       ELSE /\ rgFetched' = rgFetched \cup {rgBlocks[rgI][1]}
            /\ rgChunkOffset' = rgBlocks[rgI][2]
            /\ rgPos' = 0
            /\ rgPc' = "scan"
    /\ UNCHANGED <<rgSizes, rgBegin, rgEnd, rgBlocks, rgI, rgBody, notRgVars>>

\* The closure of the scan on a chunk of len bytes: None stops the stream
\* of the block, a chunk before the range is dropped, another is cut.
RgScanChunk(len) ==
    /\ rgPc = "scan"
    /\ LET block == rgBlocks[rgI][1]
           data == RgBlockData(rgSizes, block)
           chunk == SubSeq(data, rgPos + 1, rgPos + len)
           startInChunk == IF rgChunkOffset > rgBegin THEN 0 ELSE rgBegin - rgChunkOffset
           endInChunk == IF rgChunkOffset + len < rgEnd THEN len ELSE rgEnd - rgChunkOffset
           last == rgPos + len = rgSizes[block]
       IN  /\ len \in 1..(rgSizes[block] - rgPos)
           /\ IF rgChunkOffset >= rgEnd
              THEN /\ UNCHANGED <<rgBody, rgChunkOffset, rgPos>>
                   /\ rgI' = rgI + 1 /\ rgPc' = "fetch"
              ELSE /\ rgBody' = IF rgChunkOffset + len <= rgBegin
                                THEN rgBody
                                ELSE rgBody \o SubSeq(chunk, startInChunk + 1, endInChunk)
                   /\ rgChunkOffset' = rgChunkOffset + len
                   /\ rgPos' = rgPos + len
                   /\ rgI' = IF last THEN rgI + 1 ELSE rgI
                   /\ rgPc' = IF last THEN "fetch" ELSE "scan"
    /\ UNCHANGED <<rgSizes, rgBegin, rgEnd, rgBlocks, rgFetched, notRgVars>>

RgNext ==
    \/ RgSelectBlocks
    \/ RgFetchBlock
    \/ \E len \in 1..MaxRgBlockSize : RgScanChunk(len)

\* C30: when the body of a ranged GET ends, it is made of exactly the bytes
\* [begin, end) of the concatenation of the blocks, and the blocks that were
\* fetched are those that hold a byte of the range.
C30_RangeBodyIsTheRange ==
    rgPc = "done" =>
        /\ rgBody = SubSeq(RgObject(rgSizes), rgBegin + 1, rgEnd)
        /\ rgFetched = {i \in 1..Len(rgSizes) :
                           \E p \in rgBegin..(rgEnd - 1) :
                               RgSum(rgSizes, i - 1) <= p /\ p < RgSum(rgSizes, i)}

\* C30, its case: a range that begins and ends inside blocks, over more than
\* one block, with a block before it and a block after it that were not
\* fetched, the body being complete.
C30_Witness ==
    /\ rgPc = "done"
    /\ Len(rgBlocks) >= 2
    /\ Len(rgSizes) > Len(rgBlocks)
    /\ rgBegin > rgBlocks[1][2]
    /\ rgEnd - rgBegin < RgSum(rgSizes, Len(rgSizes)) - 2

(***************************************************************************)
(*        THE BLOCK PIPELINE OF AN UPLOAD (api/s3/put.rs)                  *)
(*                                                                         *)
(* read_and_put_blocks joins four futures: read_blocks pulls blocks from   *)
(* the chunker, hash_stream and hash_blocks hash them, put_blocks writes   *)
(* them, with a bounded channel between each two. The senders are moved    *)
(* in the futures and dropped when they end; the receivers are borrowed    *)
(* and live until the function returns.                                    *)
(***************************************************************************)

PUT_BLOCKS_MAX_PARALLEL == 3
BLOCK_CHANNEL_CAPACITY == 2
HASHED_CHANNEL_CAPACITY == 1
MaxPlBlocks == 12
PlBlockSize == 2

\* The bytes of block k of the body.
PlBlockLen(k) == IF k = plBody THEN plLastLen ELSE PlBlockSize

\* The bytes of the body before block k.
PlOffsetOf(k) == (k - 1) * PlBlockSize

\* Blocks are received whatever the number of writes in progress.
RecvAllowedAlways(currentlyRunning) == TRUE
\* put_blocks, recv_next: no block is received while the writes in progress
\* are PUT_BLOCKS_MAX_PARALLEL
RecvAllowed(currentlyRunning) == ~(currentlyRunning >= PUT_BLOCKS_MAX_PARALLEL)

\* Whether a receiver is closed when the future that uses it has ended: it
\* is borrowed by the future, so it is not.
ReceiverClosedWith(stageEnded) == FALSE

PlInit ==
    /\ plBody \in 1..MaxPlBlocks
    /\ plLastLen \in 1..PlBlockSize
    /\ plFailAt \in {None} \cup {Some(n) : n \in {1, plBody}}
    /\ plPulled = 1
    /\ plRead = [pc |-> "send", hand |-> Some(1)]
    /\ plHashStream = [pc |-> "recv", hand |-> None, sendErr |-> FALSE]
    /\ plHashBlocks = [pc |-> "recv", hand |-> None, first |-> FALSE, sendErr |-> FALSE]
    /\ plCh1 = << >>
    /\ plCh2 = << >>
    /\ plCh3 = << >>
    /\ plWriteFuts = << >>
    /\ plWrittenBytes = 0
    /\ plPut = "loop"
    /\ plResult = "running"

PlIdle ==
    /\ plBody = None
    /\ plLastLen = None
    /\ plFailAt = None
    /\ plPulled = None
    /\ plRead = None
    /\ plHashStream = None
    /\ plHashBlocks = None
    /\ plCh1 = None
    /\ plCh2 = None
    /\ plCh3 = None
    /\ plWriteFuts = None
    /\ plWrittenBytes = None
    /\ plPut = None
    /\ plResult = None

PlPutEnded == plPut \in {"ok", "err"}

\* read_blocks: block_tx.send(..) of the item in hand; after the error of
\* the body the loop ends and block_tx is dropped.
ReadBlocksSend ==
    /\ plResult = "running" /\ plRead.pc = "send"
    /\ IF ReceiverClosedWith(plHashStream.pc = "done")
       THEN plRead' = [pc |-> "done", hand |-> None] /\ UNCHANGED plCh1
       ELSE /\ Len(plCh1) < BLOCK_CHANNEL_CAPACITY
            /\ plCh1' = Append(plCh1, plRead.hand[1])
            /\ plRead' = [pc |-> IF plRead.hand[1] = 0 THEN "done" ELSE "pull", hand |-> None]
    /\ UNCHANGED <<plBody, plLastLen, plFailAt, plPulled, plHashStream, plHashBlocks, plCh2,
                   plCh3, plWriteFuts, plWrittenBytes, plPut, plResult, notPlVars>>

\* read_blocks: chunker.next() gives the next block, the end of the body or
\* the error of its stream.
ReadBlocksPull ==
    /\ plResult = "running" /\ plRead.pc = "pull"
    /\ IF plFailAt = Some(plPulled)
       THEN plRead' = [pc |-> "send", hand |-> Some(0)] /\ UNCHANGED plPulled
       ELSE IF plPulled < plBody
       THEN plRead' = [pc |-> "send", hand |-> Some(plPulled + 1)] /\ plPulled' = plPulled + 1
       ELSE plRead' = [pc |-> "done", hand |-> None] /\ UNCHANGED plPulled
    /\ UNCHANGED <<plBody, plLastLen, plFailAt, plHashStream, plHashBlocks, plCh1, plCh2,
                   plCh3, plWriteFuts, plWrittenBytes, plPut, plResult, notPlVars>>

\* hash_stream: block_rx.recv() gives an item, or None when the channel is
\* empty and block_tx was dropped.
HashStreamRecv ==
    /\ plResult = "running" /\ plHashStream.pc = "recv"
    /\ IF plCh1 # << >>
       THEN /\ plHashStream' = [plHashStream EXCEPT !.pc = "send", !.hand = Some(Head(plCh1))]
            /\ plCh1' = Tail(plCh1)
       ELSE /\ plRead.pc = "done"
            /\ plHashStream' = [plHashStream EXCEPT !.pc = "done"]
            /\ UNCHANGED plCh1
    /\ UNCHANGED <<plBody, plLastLen, plFailAt, plPulled, plRead, plHashBlocks, plCh2, plCh3,
                   plWriteFuts, plWrittenBytes, plPut, plResult, notPlVars>>

\* hash_stream: block_tx2.send(..), then the block is hashed
HashStreamSend ==
    /\ plResult = "running" /\ plHashStream.pc = "send"
    /\ IF ReceiverClosedWith(plHashBlocks.pc = "done")
       THEN /\ plHashStream' = [pc |-> "done", hand |-> None, sendErr |-> TRUE]
            /\ UNCHANGED plCh2
       ELSE /\ Len(plCh2) < HASHED_CHANNEL_CAPACITY
            /\ plCh2' = Append(plCh2, plHashStream.hand[1])
            /\ plHashStream' = [plHashStream EXCEPT
                                   !.pc = IF plHashStream.hand[1] = 0 THEN "done" ELSE "recv",
                                   !.hand = None]
    /\ UNCHANGED <<plBody, plLastLen, plFailAt, plPulled, plRead, plHashBlocks, plCh1, plCh3,
                   plWriteFuts, plWrittenBytes, plPut, plResult, notPlVars>>

\* hash_blocks: block_rx2.recv(); a block is hashed and the first hash
\* kept; at None the loop ends and first_block_hash is unwrapped.
HashBlocksRecv ==
    /\ plResult = "running" /\ plHashBlocks.pc = "recv"
    /\ IF plCh2 # << >>
       THEN /\ plHashBlocks' = [plHashBlocks EXCEPT
                                   !.pc = "send", !.hand = Some(Head(plCh2)),
                                   !.first = @ \/ Head(plCh2) # 0]
            /\ plCh2' = Tail(plCh2)
            /\ UNCHANGED plResult
       ELSE /\ plHashStream.pc = "done"
            /\ plHashBlocks' = [plHashBlocks EXCEPT !.pc = "done"]
            /\ plResult' = IF plHashBlocks.first THEN plResult ELSE "panic"
            /\ UNCHANGED plCh2
    /\ UNCHANGED <<plBody, plLastLen, plFailAt, plPulled, plRead, plHashStream, plCh1, plCh3,
                   plWriteFuts, plWrittenBytes, plPut, notPlVars>>

\* hash_blocks: block_tx3.send(..); after the error of the body the loop
\* ends and first_block_hash is unwrapped.
HashBlocksSend ==
    /\ plResult = "running" /\ plHashBlocks.pc = "send"
    /\ IF ReceiverClosedWith(PlPutEnded)
       THEN /\ plHashBlocks' = [plHashBlocks EXCEPT
                                   !.pc = "done", !.hand = None, !.sendErr = TRUE]
            /\ UNCHANGED <<plCh3, plResult>>
       ELSE /\ Len(plCh3) < HASHED_CHANNEL_CAPACITY
            /\ plCh3' = Append(plCh3, plHashBlocks.hand[1])
            /\ plHashBlocks' = [plHashBlocks EXCEPT
                                   !.pc = IF plHashBlocks.hand[1] = 0 THEN "done" ELSE "recv",
                                   !.hand = None]
            /\ plResult' = IF plHashBlocks.hand[1] = 0 /\ ~plHashBlocks.first
                           THEN "panic" ELSE plResult
    /\ UNCHANGED <<plBody, plLastLen, plFailAt, plPulled, plRead, plHashStream, plCh1, plCh2,
                   plWriteFuts, plWrittenBytes, plPut, notPlVars>>

\* put_blocks, the branch recv_next of the select!: the next block is given
\* its offset and its write is pushed in write_futs; the error of the body
\* ends put_blocks; None ends the loop.
PutBlocksRecv ==
    /\ plResult = "running" /\ plPut = "loop"
    /\ RecvAllowed(Len(plWriteFuts))
    /\ IF plCh3 # << >>
       THEN /\ plCh3' = Tail(plCh3)
            /\ IF Head(plCh3) = 0
               THEN /\ plPut' = "err" /\ plWriteFuts' = << >>
                    /\ UNCHANGED plWrittenBytes
               ELSE /\ plWriteFuts' = Append(plWriteFuts,
                          [blk |-> Head(plCh3), offset |-> plWrittenBytes, st |-> "running"])
                    /\ plWrittenBytes' = plWrittenBytes + PlBlockLen(Head(plCh3))
                    /\ UNCHANGED plPut
       ELSE /\ plHashBlocks.pc = "done"
            /\ plPut' = "drain"
            /\ UNCHANGED <<plCh3, plWriteFuts, plWrittenBytes>>
    /\ UNCHANGED <<plBody, plLastLen, plFailAt, plPulled, plRead, plHashStream, plHashBlocks,
                   plCh1, plCh2, plResult, notPlVars>>

\* put_block_and_meta of a block in write_futs ends, with or without error
PutBlockAndMetaEnds(i, ok) ==
    /\ plResult = "running" /\ ~PlPutEnded
    /\ i \in 1..Len(plWriteFuts) /\ plWriteFuts[i].st = "running"
    /\ plWriteFuts' = [plWriteFuts EXCEPT ![i].st = IF ok THEN "ok" ELSE "err"]
    /\ UNCHANGED <<plBody, plLastLen, plFailAt, plPulled, plRead, plHashStream, plHashBlocks,
                   plCh1, plCh2, plCh3, plWrittenBytes, plPut, plResult, notPlVars>>

\* put_blocks, write_futs.next() in the select! and in the last loop: the
\* result of the oldest write; an error ends put_blocks and drops the other
\* writes; after the last one of the last loop put_blocks ends.
PutBlocksWriteNext ==
    /\ plResult = "running" /\ ~PlPutEnded
    /\ IF plWriteFuts = << >>
       THEN /\ plPut = "drain"
            /\ plPut' = "ok"
            /\ UNCHANGED plWriteFuts
       ELSE /\ plWriteFuts[1].st # "running"
            /\ IF plWriteFuts[1].st = "err"
               THEN plPut' = "err" /\ plWriteFuts' = << >>
               ELSE plWriteFuts' = Tail(plWriteFuts) /\ UNCHANGED plPut
    /\ UNCHANGED <<plBody, plLastLen, plFailAt, plPulled, plRead, plHashStream, plHashBlocks,
                   plCh1, plCh2, plCh3, plWrittenBytes, plResult, notPlVars>>

\* The join! of the four futures is over: the error of put_blocks is
\* returned, else the results of the hashing stages are unwrapped.
ReadAndPutBlocksReturns ==
    /\ plResult = "running"
    /\ plRead.pc = "done" /\ plHashStream.pc = "done" /\ plHashBlocks.pc = "done" /\ PlPutEnded
    /\ plResult' = IF plPut = "err" THEN "Err"
                   ELSE IF plHashStream.sendErr \/ plHashBlocks.sendErr THEN "panic"
                   ELSE "Ok"
    /\ UNCHANGED <<plBody, plLastLen, plFailAt, plPulled, plRead, plHashStream, plHashBlocks,
                   plCh1, plCh2, plCh3, plWriteFuts, plWrittenBytes, plPut, notPlVars>>

PlNext ==
    \/ ReadBlocksSend
    \/ ReadBlocksPull
    \/ HashStreamRecv
    \/ HashStreamSend
    \/ HashBlocksRecv
    \/ HashBlocksSend
    \/ PutBlocksRecv
    \/ \E i \in 1..PUT_BLOCKS_MAX_PARALLEL, ok \in BOOLEAN : PutBlockAndMetaEnds(i, ok)
    \/ PutBlocksWriteNext
    \/ ReadAndPutBlocksReturns

\* The blocks the pipeline holds: in the hands of its stages, in its
\* channels and in its writes.
PlHeld ==
    Len(plCh1) + Len(plCh2) + Len(plCh3) + Len(plWriteFuts)
    + (IF plRead.hand # None THEN 1 ELSE 0)
    + (IF plHashStream.hand # None THEN 1 ELSE 0)
    + (IF plHashBlocks.hand # None THEN 1 ELSE 0)

\* C31: at most PUT_BLOCKS_MAX_PARALLEL writes are in write_futs, they are
\* the writes of consecutive blocks in the order of the body, each at the
\* offset that is the size of the blocks before it, and the pipeline never
\* holds more blocks than its writes, its channels and one per stage,
\* whatever the length of the body.
C31_UploadPipelineIsBounded ==
    /\ Len(plWriteFuts) <= PUT_BLOCKS_MAX_PARALLEL
    /\ \A i \in 1..Len(plWriteFuts) :
          /\ plWriteFuts[i].offset = PlOffsetOf(plWriteFuts[i].blk)
          /\ i > 1 => plWriteFuts[i].blk = plWriteFuts[i - 1].blk + 1
    /\ PlHeld <= PUT_BLOCKS_MAX_PARALLEL + BLOCK_CHANNEL_CAPACITY
                 + HASHED_CHANNEL_CAPACITY + HASHED_CHANNEL_CAPACITY + 3

\* C31, its case: the three writes are in progress, the three channels are
\* full and each stage holds a block it cannot send, while the body still
\* has blocks: nothing is pulled from the body.
C31_Witness ==
    /\ Len(plWriteFuts) = PUT_BLOCKS_MAX_PARALLEL
    /\ \A i \in 1..Len(plWriteFuts) : plWriteFuts[i].st = "running"
    /\ Len(plCh1) = BLOCK_CHANNEL_CAPACITY
    /\ Len(plCh2) = HASHED_CHANNEL_CAPACITY /\ Len(plCh3) = HASHED_CHANNEL_CAPACITY
    /\ plRead.pc = "send" /\ plHashStream.pc = "send" /\ plHashBlocks.pc = "send"
    /\ plPulled < plBody
    /\ plWriteFuts[1].blk > 1
    /\ ~ENABLED ReadBlocksPull

\* C33: no stage of the pipeline waits to send in a full channel whose
\* receiving future has ended, and read_and_put_blocks does not panic:
\* whatever fails, the four futures can go on until the function returns.
C33_PipelineEndsAfterFailure ==
    /\ plResult # "panic"
    /\ ~(plHashBlocks.pc = "send" /\ Len(plCh3) >= HASHED_CHANNEL_CAPACITY /\ PlPutEnded)
    /\ ~(plHashStream.pc = "send" /\ Len(plCh2) >= HASHED_CHANNEL_CAPACITY
            /\ plHashBlocks.pc = "done")
    /\ ~(plRead.pc = "send" /\ Len(plCh1) >= BLOCK_CHANNEL_CAPACITY /\ plHashStream.pc = "done")

(***************************************************************************)
(*        CAUSALITY TOKENS OF K2V (model/k2v/causality.rs)                 *)
(*                                                                         *)
(* A token is the base64 of the big-endian bytes of a checksum and of the  *)
(* (node, time) pairs of a vector clock, 8 bytes for each integer.         *)
(***************************************************************************)

\* Node ids and times: small ones and ones of two bytes.
CcNodeIds == {1, 2, 258}
CcTimes == {1, 2, 513}

\* The vector clocks: a time for each node of a set of nodes.
CcClocks == UNION {[nodes -> CcTimes] : nodes \in SUBSET CcNodeIds}

RECURSIVE Xor(_, _)
\* a ^ b on unsigned integers
Xor(a, b) ==
    IF a = 0 /\ b = 0 THEN 0
    ELSE (((a % 2) + (b % 2)) % 2) + 2 * Xor(a \div 2, b \div 2)

RECURSIVE XorAll(_)
\* The fold of ^ on a sequence of integers.
XorAll(ints) == IF ints = << >> THEN 0 ELSE Xor(Head(ints), XorAll(Tail(ints)))

RECURSIVE BytesOf(_, _)
\* The n low bytes of x, big-endian.
BytesOf(x, n) == IF n = 0 THEN << >> ELSE Append(BytesOf(x \div 256, n - 1), x % 256)

\* u64::to_be_bytes
ToBeBytes(x) == BytesOf(x, 8)

RECURSIVE FromBeBytes(_)
\* u64::from_be_bytes
FromBeBytes(bytes) ==
    IF bytes = << >> THEN 0
    ELSE 256 * FromBeBytes(SubSeq(bytes, 1, Len(bytes) - 1)) + bytes[Len(bytes)]

RECURSIVE BytesOfInts(_)
BytesOfInts(ints) ==
    IF ints = << >> THEN << >> ELSE ToBeBytes(Head(ints)) \o BytesOfInts(Tail(ints))

\* base64::encode: each group of three bytes gives four symbols of six bits;
\* the last group is padded.
Base64Encode(bytes) ==
    LET n == Len(bytes)
        byte(i) == IF i <= n THEN bytes[i] ELSE 0
        symbol(i) ==
            LET g == (i - 1) \div 4
                b1 == byte(3 * g + 1)
                b2 == byte(3 * g + 2)
                b3 == byte(3 * g + 3)
            IN  CASE i % 4 = 1 -> b1 \div 4
                  [] i % 4 = 2 -> (b1 % 4) * 16 + (b2 \div 16)
                  [] i % 4 = 3 -> IF 3 * g + 2 > n THEN 64 ELSE (b2 % 16) * 4 + (b3 \div 64)
                  [] OTHER -> IF 3 * g + 3 > n THEN 64 ELSE b3 % 64
    IN  [i \in 1..(4 * ((n + 2) \div 3)) |-> symbol(i)]

\* base64::decode: None when the length or the padding is wrong.
Base64Decode(symbols) ==
    LET m == Len(symbols)
        pads == Cardinality({i \in 1..m : symbols[i] = 64})
        n == 3 * (m \div 4) - pads
        sym(i) == IF symbols[i] = 64 THEN 0 ELSE symbols[i]
        byte(j) ==
            LET g == (j - 1) \div 3
                s1 == sym(4 * g + 1)
                s2 == sym(4 * g + 2)
                s3 == sym(4 * g + 3)
                s4 == sym(4 * g + 4)
            IN  CASE j % 3 = 1 -> s1 * 4 + (s2 \div 16)
                  [] j % 3 = 2 -> (s2 % 16) * 16 + (s3 \div 4)
                  [] OTHER -> (s3 % 4) * 64 + s4
    IN  IF m % 4 # 0 \/ pads > 2 \/ \E i \in 1..(m - pads) : symbols[i] = 64
        THEN None
        ELSE Some([j \in 1..n |-> byte(j)])

RECURSIVE ClockInts(_, _)
\* The loop of serialize on the vector clock in the order of the node ids.
ClockInts(clock, nodes) ==
    IF nodes = {} THEN << >>
    ELSE LET node == CHOOSE x \in nodes : \A y \in nodes : x <= y
         IN  <<node, clock[node]>> \o ClockInts(clock, nodes \ {node})

\* CausalContext::serialize
Serialize(clock) ==
    LET ints == ClockInts(clock, DOMAIN clock)
        checksum == XorAll(ints)
    IN  Base64Encode(ToBeBytes(checksum) \o BytesOfInts(ints))

RECURSIVE InsertEntries(_, _, _)
\* The loop of parse: entry i of the bytes, and the following, are inserted in
\* the vector clock; a later entry of a node replaces an earlier one.
InsertEntries(bytes, i, clock) ==
    IF i >= Len(bytes) \div 16 THEN clock
    ELSE LET node == FromBeBytes(SubSeq(bytes, 8 + i * 16 + 1, 16 + i * 16))
             time == FromBeBytes(SubSeq(bytes, 16 + i * 16 + 1, 24 + i * 16))
         IN  InsertEntries(bytes, i + 1,
                [n \in DOMAIN clock \cup {node} |-> IF n = node THEN time ELSE clock[n]])

\* CausalContext::parse
Parse(token) ==
    LET decoded == Base64Decode(token)
        bytes == decoded[1]
        checksum == FromBeBytes(SubSeq(bytes, 1, 8))
        clock == InsertEntries(bytes, 0, << >>)
        check == XorAll(ClockInts(clock, DOMAIN clock))
        failed == [ok |-> FALSE, clock |-> << >>]
    IN  IF decoded = None THEN failed
        ELSE IF Len(bytes) % 16 # 8 \/ Len(bytes) < 8 THEN failed
        ELSE IF check # checksum THEN failed
        ELSE [ok |-> TRUE, clock |-> clock]

\* The integers of the tokens a client may send: a checksum, then up to two
\* (node, time) pairs.
CcForgedInts ==
    LET checksums == {0, 1, 3, 259}
        pairs == CcNodeIds \X CcTimes
    IN  {<<c>> : c \in checksums}
        \cup {<<c, p[1], p[2]>> : c \in checksums, p \in pairs}
        \cup {<<c, p[1], p[2], q[1], q[2]>> : c \in checksums, p \in pairs, q \in pairs}

CcInit ==
    /\ ccClock \in CcClocks
    /\ ccForged = None
    /\ ccToken = None
    /\ ccParsed = None
    /\ ccPc = "start"

CcIdle ==
    /\ ccClock = None
    /\ ccForged = None
    /\ ccToken = << >>
    /\ ccParsed = None
    /\ ccPc = None

\* ct.serialize()
CcSerialize ==
    /\ ccPc = "start"
    /\ ccToken' = Serialize(ccClock)
    /\ ccPc' = "serialized"
    /\ UNCHANGED <<ccClock, ccForged, ccParsed, notCcVars>>

\* CausalContext::parse of the token that serialize made
CcParse ==
    /\ ccPc = "serialized"
    /\ ccParsed' = Parse(ccToken)
    /\ ccPc' = "parsed"
    /\ UNCHANGED <<ccClock, ccForged, ccToken, notCcVars>>

\* CausalContext::parse of a token that a client made: the base64 of the
\* bytes of its integers, without the last cut bytes.
CcParseForged(ints, cut) ==
    /\ ccPc = "start"
    /\ LET bytes == SubSeq(BytesOfInts(ints), 1, 8 * Len(ints) - cut)
       IN  /\ ccForged' = [ints |-> ints, cut |-> cut]
           /\ ccToken' = Base64Encode(bytes)
           /\ ccParsed' = Parse(Base64Encode(bytes))
    /\ ccPc' = "forged"
    /\ UNCHANGED <<ccClock, notCcVars>>

CcNext ==
    \/ CcSerialize
    \/ CcParse
    \/ \E ints \in CcForgedInts, cut \in {0, 1, 8} : CcParseForged(ints, cut)

\* C32: the parse of the token of a causal context succeeds and returns the
\* causal context; and parse fails on a token whose length is not 8 + 16 k
\* bytes or whose first integer is not the XOR of the integers that follow.
C32_TokenRoundTripAndChecks ==
    /\ ccPc = "parsed" => ccParsed = [ok |-> TRUE, clock |-> ccClock]
    /\ ccPc = "forged" =>
          LET len == 8 * Len(ccForged.ints) - ccForged.cut
          IN  (len % 16 # 8 \/ Head(ccForged.ints) # XorAll(Tail(ccForged.ints)))
                 => ~ccParsed.ok

(***************************************************************************)
(*        AN UPLOAD AND THE BLOCK-REFS REPAIR (put.rs, garage/repair.rs)   *)
(*                                                                         *)
(* save_stream inserts the Version row of the upload, awaits the insert,   *)
(* and only then put_block_and_meta inserts BlockRef rows. An insert sends *)
(* the row to every replica and returns when a write quorum of them has    *)
(* stored it; a get merges the answers of a read quorum of replicas.       *)
(***************************************************************************)

NumSvNodes == 3
SvNodes == 1..NumSvNodes
ConsistencyModes == {"consistent", "degraded", "dangerous"}

\* The read quorum of a mode: 1 unless the mode is Consistent.
ReadQuorumOf(mode) == IF mode = "consistent" THEN (NumSvNodes + 1) \div 2 ELSE 1

\* The write quorum of a mode: 1 when Dangerous, else what gives
\* read-after-write consistency with the read quorum of Consistent.
WriteQuorumOf(mode) ==
    IF mode = "dangerous" THEN 1 ELSE NumSvNodes + 1 - ReadQuorumOf("consistent")

\* The blocks are sent without waiting for the insert of the Version row.
BlocksMayStartAtOnce(stored, sent, mode) == TRUE
\* save_stream: `version_table.insert(c, &version).await?` has returned Ok
\* before read_and_put_blocks is called
BlocksMayStart(stored, sent, mode) == Cardinality(stored) >= WriteQuorumOf(mode)

SvInit ==
    /\ svMode \in ConsistencyModes
    /\ svVersion = {}
    /\ svVersionSent = {}
    /\ svRef = [n \in SvNodes |-> "none"]
    /\ svRefSent = {}
    /\ svPc = "start"
    /\ svRepair \in {[node |-> n, pc |-> "scan"] : n \in SvNodes}
    /\ svTombstoned = FALSE

SvIdle ==
    /\ svMode = None
    /\ svVersion = None
    /\ svVersionSent = None
    /\ svRef = None
    /\ svRefSent = None
    /\ svPc = None
    /\ svRepair = None
    /\ svTombstoned = None

SvInProgress == svPc \in {"version", "blocks", "uploading"}

\* save_stream: version_table.insert(c, &version) sends the row with an
\* empty block list to the replicas.
SaveStreamInsertVersion ==
    /\ svPc = "start"
    /\ svVersionSent' = SvNodes
    /\ svPc' = "version"
    /\ UNCHANGED <<svMode, svVersion, svRef, svRefSent, svRepair, svTombstoned, notSvVars>>

\* A replica stores the Version row it was sent, or the RPC to it fails.
SvVersionRpc(n, ok) ==
    /\ n \in svVersionSent
    /\ svVersionSent' = svVersionSent \ {n}
    /\ svVersion' = IF ok THEN svVersion \cup {n} ELSE svVersion
    /\ UNCHANGED <<svMode, svRef, svRefSent, svPc, svRepair, svTombstoned, notSvVars>>

\* save_stream after the insert of the Version row: with a write quorum the
\* first put_block_and_meta sends the BlockRef row to the replicas; when the
\* quorum cannot be reached any more the upload fails.
SaveStreamPutBlock ==
    /\ svPc = "version"
    /\ IF BlocksMayStart(svVersion, svVersionSent, svMode)
       THEN svPc' = "blocks" /\ svRefSent' = SvNodes
       ELSE /\ Cardinality(svVersion \cup svVersionSent) < WriteQuorumOf(svMode)
            /\ svPc' = "failed" /\ UNCHANGED svRefSent
    /\ UNCHANGED <<svMode, svVersion, svVersionSent, svRef, svRepair, svTombstoned, notSvVars>>

\* A replica merges the BlockRef row it was sent (a deleted row stays
\* deleted), or the RPC to it fails.
SvBlockRefRpc(n, ok) ==
    /\ n \in svRefSent
    /\ svRefSent' = svRefSent \ {n}
    /\ svRef' = IF ok /\ svRef[n] = "none" THEN [svRef EXCEPT ![n] = "live"] ELSE svRef
    /\ UNCHANGED <<svMode, svVersion, svVersionSent, svPc, svRepair, svTombstoned, notSvVars>>

\* put_block_and_meta returns: with a write quorum the upload goes on, else
\* it fails.
PutBlockAndMetaReturns ==
    /\ svPc = "blocks"
    /\ LET stored == {n \in SvNodes : svRef[n] # "none"}
       IN  IF Cardinality(stored) >= WriteQuorumOf(svMode)
           THEN svPc' = "uploading"
           ELSE /\ Cardinality(stored \cup svRefSent) < WriteQuorumOf(svMode)
                /\ svPc' = "failed"
    /\ UNCHANGED <<svMode, svVersion, svVersionSent, svRef, svRefSent, svRepair, svTombstoned,
                   notSvVars>>

\* repair_block_ref on a node: the next row of its block_ref store; a row
\* that is not deleted is looked up, and without a row the pass ends.
SvRepairNext ==
    /\ svRepair.pc = "scan"
    /\ svRepair' = [svRepair EXCEPT
                       !.pc = CASE svRef[svRepair.node] = "live" -> "lookup"
                                [] svRef[svRepair.node] = "deleted" -> "done"
                                [] OTHER -> "done"]
    /\ UNCHANGED <<svMode, svVersion, svVersionSent, svRef, svRefSent, svPc, svTombstoned,
                   notSvVars>>

\* repair_block_ref: version_table.get merges the answers of the replicas
\* `from`, a read quorum of them; when none has the Version row the
\* BlockRef is inserted again with deleted = true.
SvRepairLookup(from) ==
    /\ svRepair.pc = "lookup"
    /\ Cardinality(from) = ReadQuorumOf(svMode)
    /\ LET ref_exists == from \cap svVersion # {}
       IN  /\ svRef' = IF ref_exists THEN svRef
                       ELSE [svRef EXCEPT ![svRepair.node] = "deleted"]
           /\ svTombstoned' = (svTombstoned \/ (~ref_exists /\ SvInProgress))
    /\ svRepair' = [svRepair EXCEPT !.pc = "done"]
    /\ UNCHANGED <<svMode, svVersion, svVersionSent, svRefSent, svPc, notSvVars>>

\* Another pass is started on a node.
SvRepairStarts(n) ==
    /\ svRepair.pc = "done"
    /\ svRepair' = [node |-> n, pc |-> "scan"]
    /\ UNCHANGED <<svMode, svVersion, svVersionSent, svRef, svRefSent, svPc, svTombstoned,
                   notSvVars>>

SvNext ==
    \/ SaveStreamInsertVersion
    \/ \E n \in SvNodes, ok \in BOOLEAN : SvVersionRpc(n, ok)
    \/ SaveStreamPutBlock
    \/ \E n \in SvNodes, ok \in BOOLEAN : SvBlockRefRpc(n, ok)
    \/ PutBlockAndMetaReturns
    \/ SvRepairNext
    \/ \E from \in SUBSET SvNodes : SvRepairLookup(from)
    \/ \E n \in SvNodes : SvRepairStarts(n)

RrPageSize == 2
\* The largest limit of a call.
MaxRrLimit == 3
\* The width of usize.
UsizeBits == 6

RrKeys == {<<1>>, <<1, 1>>, <<1, 2>>, <<2>>, <<2, 1>>, <<2, 2>>}
RrEmptyKey == << >>

\* str::starts_with
StartsWith(s, p) == Len(p) <= Len(s) /\ SubSeq(s, 1, Len(p)) = p

\* The order of strings is the order of the keys of a tree.
SortKeyLeq(a, b) == a = b \/ KeyLess(a, b)

\* The keys of a set in the order of strings.
RECURSIVE SortedKeys(_)
SortedKeys(S) ==
    IF S = {} THEN << >>
    ELSE LET m == CHOOSE k \in S : \A o \in S : SortKeyLeq(k, o)
         IN  <<m>> \o SortedKeys(S \ {m})

FirstN(s, n) == SubSeq(s, 1, Min2(n, Len(s)))

\* table.get_range(partition_key, Some(start), filter, n)
GetRange(start, n) == FirstN(SortedKeys({k \in rrTable : SortKeyLeq(start, k)}), n)

\* min(1000, limit - entries.len() + 2) without the overflow of usize.
NGetUnbounded(limit, len) ==
    IF limit = None THEN RrPageSize ELSE Min2(RrPageSize, limit[1] - len + 2)
\* `limit.unwrap_or(u64::MAX) as usize - entries.len() + 2` overflows.
NGetOverflows(limit, len) ==
    (IF limit = None THEN Pow2(UsizeBits) - 1 ELSE limit[1]) - len + 2 >= Pow2(UsizeBits)
\* std::cmp::min(1000, limit.unwrap_or(u64::MAX) as usize - entries.len() + 2),
\* the sum wrapped to usize
NGet(limit, len) ==
    Min2(RrPageSize,
         ((IF limit = None THEN Pow2(UsizeBits) - 1 ELSE limit[1]) - len + 2) % Pow2(UsizeBits))

RrInit ==
    /\ rrTable \in SUBSET RrKeys
    /\ rrPrefix \in {None, Some(<<1>>), Some(<<2>>)}
    /\ rrStartArg \in {None} \cup {Some(k) : k \in RrKeys}
    /\ rrEnd \in {None} \cup {Some(k) : k \in RrKeys}
    /\ rrLimit \in {None} \cup {Some(n) : n \in 0..MaxRrLimit}
    /\ rrChecks \in BOOLEAN
    /\ rrStart = RrEmptyKey
    /\ rrIgnore = FALSE
    /\ rrEntries = << >>
    /\ rrRet = None
    /\ rrPc = "call"

RrIdle ==
    /\ rrTable = None
    /\ rrPrefix = None
    /\ rrStartArg = None
    /\ rrEnd = None
    /\ rrLimit = None
    /\ rrChecks = None
    /\ rrStart = None
    /\ rrIgnore = None
    /\ rrEntries = None
    /\ rrRet = None
    /\ rrPc = None

\* read_range, before the loop: the first `start`, or BadRequest when the
\* argument start does not start with the prefix.
ReadRangeCall ==
    /\ rrPc = "call"
    /\ IF rrPrefix # None /\ rrStartArg # None /\ ~StartsWith(rrStartArg[1], rrPrefix[1])
       THEN /\ rrRet' = Some([err |-> TRUE])
            /\ rrPc' = "done"
            /\ UNCHANGED rrStart
       ELSE /\ rrStart' = IF rrStartArg # None THEN rrStartArg[1]
                          ELSE IF rrPrefix # None THEN rrPrefix[1] ELSE RrEmptyKey
            /\ rrPc' = "loop"
            /\ UNCHANGED rrRet
    /\ UNCHANGED <<rrTable, rrPrefix, rrStartArg, rrEnd, rrLimit, rrChecks, rrIgnore,
                   rrEntries, notRrVars>>

\* read_range, the `for entry in get_ret` from the i-th entry on: the
\* value returned from inside the loop, or the entries at its end.
RECURSIVE ForEntryIn(_, _, _)
ForEntryIn(get_ret, i, entries) ==
    IF i > Len(get_ret) THEN [returned |-> FALSE, entries |-> entries]
    ELSE LET entry == get_ret[i]
         IN  IF rrPrefix # None /\ ~StartsWith(entry, rrPrefix[1])
             THEN [returned |-> TRUE, entries |-> entries, more |-> FALSE, next |-> None]
             ELSE IF rrEnd # None /\ entry = rrEnd[1]
             THEN [returned |-> TRUE, entries |-> entries, more |-> FALSE, next |-> None]
             ELSE IF rrLimit # None /\ Len(entries) >= rrLimit[1]
             THEN [returned |-> TRUE, entries |-> entries, more |-> TRUE,
                   next |-> Some(entry)]
             ELSE IF rrIgnore /\ entry = rrStart
             THEN ForEntryIn(get_ret, i + 1, entries)
             ELSE ForEntryIn(get_ret, i + 1, Append(entries, entry))

\* read_range, one turn of the loop: a page is read and scanned; the call
\* returns from the scan or after a short page, else the next page starts
\* at the last entry. The sum of n_get that overflows panics in a build
\* that checks it.
ReadRangePage ==
    /\ rrPc = "loop"
    /\ IF rrChecks /\ NGetOverflows(rrLimit, Len(rrEntries))
       THEN /\ rrPc' = "panicked"
            /\ UNCHANGED <<rrStart, rrIgnore, rrEntries, rrRet>>
       ELSE LET n_get == NGet(rrLimit, Len(rrEntries))
                get_ret == GetRange(rrStart, n_get)
                scan == ForEntryIn(get_ret, 1, rrEntries)
            IN  IF scan.returned
                THEN /\ rrRet' = Some([err |-> FALSE, entries |-> scan.entries,
                                       more |-> scan.more, next |-> scan.next])
                     /\ rrPc' = "done"
                     /\ rrEntries' = scan.entries
                     /\ UNCHANGED <<rrStart, rrIgnore>>
                ELSE IF Len(get_ret) < n_get
                THEN /\ rrRet' = Some([err |-> FALSE, entries |-> scan.entries,
                                       more |-> FALSE, next |-> None])
                     /\ rrPc' = "done"
                     /\ rrEntries' = scan.entries
                     /\ UNCHANGED <<rrStart, rrIgnore>>
                ELSE IF scan.entries = << >>
                THEN /\ rrPc' = "panicked"
                     /\ UNCHANGED <<rrStart, rrIgnore, rrEntries, rrRet>>
                ELSE /\ rrStart' = scan.entries[Len(scan.entries)]
                     /\ rrIgnore' = TRUE
                     /\ rrEntries' = scan.entries
                     /\ UNCHANGED <<rrRet, rrPc>>
    /\ UNCHANGED <<rrTable, rrPrefix, rrStartArg, rrEnd, rrLimit, rrChecks, notRrVars>>

RrNext ==
    \/ ReadRangeCall
    \/ ReadRangePage

\* The entries that match the arguments, in the order of their keys.
RrMatching ==
    SortedKeys({k \in rrTable :
                  /\ rrPrefix # None => StartsWith(k, rrPrefix[1])
                  /\ rrStartArg # None => SortKeyLeq(rrStartArg[1], k)
                  /\ rrEnd # None => KeyLess(k, rrEnd[1])})

\* C37: read_range does not panic, and what it returns is the first
\* min(limit, n) of the n matching entries (prefix, >= start, < end), in
\* the order of their keys and each once, with more = true and the key of
\* the first matching entry that was not returned exactly when there is
\* one.
C37_ReadRangeReturnsFirstMatching ==
    /\ rrPc # "panicked"
    /\ (rrRet # None /\ ~rrRet[1].err) =>
          LET m == RrMatching
              n == IF rrLimit = None THEN Len(m) ELSE Min2(rrLimit[1], Len(m))
          IN  /\ rrRet[1].entries = SubSeq(m, 1, n)
              /\ rrRet[1].more = (n < Len(m))
              /\ rrRet[1].next = IF n < Len(m) THEN Some(m[n + 1]) ELSE None

(***************************************************************************)
(*               THE LONG POLL OF A K2V ITEM (model/k2v/rpc.rs)            *)
(*                                                                         *)
(* handle_poll_item subscribes to the item, reads the stored item, and     *)
(* takes notifications until the item is newer than the token; the         *)
(* handler of PollItem gives up after the timeout. An update is committed  *)
(* and then published to the subscribers. A causal context is a vector     *)
(* clock.                                                                  *)
(***************************************************************************)

\* The largest counter of a vector clock.
MaxKpCounter == 2
KpNodes == {"n1", "n2"}
KpContexts == [KpNodes -> 0..MaxKpCounter]

\* CausalContext::is_newer_than: some node has a larger counter
IsNewerThan(ctx, other) == \E n \in KpNodes : ctx[n] > other[n]

\* The stored item is read first, the subscription comes after.
SubscribesAfterRead == FALSE
\* handle_poll_item: subscribe_item(key) is called before read_entry
SubscribesBeforeRead == TRUE

KpInit ==
    /\ kpToken \in [KpNodes -> 0..1]
    /\ kpStored \in [KpNodes -> 0..1]
    /\ kpUnpublished = << >>
    /\ kpSubscribed = FALSE
    /\ kpChan = << >>
    /\ kpValue = None
    /\ kpFirstRead = None
    /\ kpRet = None
    /\ kpPc = "start"

KpIdle ==
    /\ kpToken = None
    /\ kpStored = None
    /\ kpUnpublished = None
    /\ kpSubscribed = None
    /\ kpChan = None
    /\ kpValue = None
    /\ kpFirstRead = None
    /\ kpRet = None
    /\ kpPc = None

\* handle_poll_item: self.subscriptions.subscribe_item(key)
HandlePollItemSubscribe ==
    /\ kpPc = (IF SubscribesBeforeRead THEN "start" ELSE "second")
    /\ kpSubscribed' = TRUE
    /\ kpPc' = (IF SubscribesBeforeRead THEN "second" ELSE "loop")
    /\ UNCHANGED <<kpToken, kpStored, kpUnpublished, kpChan, kpValue, kpFirstRead, kpRet,
                   notKpVars>>

\* handle_poll_item: read_entry of the stored item (a new item when there
\* is none)
HandlePollItemRead ==
    /\ kpPc = (IF SubscribesBeforeRead THEN "second" ELSE "start")
    /\ kpValue' = Some(kpStored)
    /\ kpFirstRead' = Some(kpStored)
    /\ kpPc' = (IF SubscribesBeforeRead THEN "loop" ELSE "second")
    /\ UNCHANGED <<kpToken, kpStored, kpUnpublished, kpSubscribed, kpChan, kpRet, notKpVars>>

\* handle_poll_item, the loop: a value newer than the token is returned,
\* else the next notification is awaited and taken.
HandlePollItemLoop ==
    /\ kpPc = "loop"
    /\ IF IsNewerThan(kpValue[1], kpToken)
       THEN /\ kpRet' = Some([item |-> kpValue])
            /\ kpPc' = "done"
            /\ kpSubscribed' = FALSE
            /\ UNCHANGED <<kpValue, kpChan>>
       ELSE /\ kpChan # << >>
            /\ kpValue' = Some(Head(kpChan))
            /\ kpChan' = Tail(kpChan)
            /\ UNCHANGED <<kpRet, kpPc, kpSubscribed>>
    /\ UNCHANGED <<kpToken, kpStored, kpUnpublished, kpFirstRead, notKpVars>>

\* The handler of PollItem: the delay of timeout_msec ends first, the
\* answer is PollItemResponse(None) and poll_item returns None.
PollItemTimeout ==
    /\ kpPc # "done"
    /\ kpRet' = Some([item |-> None])
    /\ kpPc' = "done"
    /\ kpSubscribed' = FALSE
    /\ UNCHANGED <<kpToken, kpStored, kpUnpublished, kpChan, kpValue, kpFirstRead, notKpVars>>

\* local_insert, or an update received from another node: the item is
\* updated in a transaction; the update adds an event of node n.
KpUpdateCommits(n) ==
    /\ kpStored[n] < MaxKpCounter
    /\ kpStored' = [kpStored EXCEPT ![n] = @ + 1]
    /\ kpUnpublished' = Append(kpUnpublished, [kpStored EXCEPT ![n] = @ + 1])
    /\ UNCHANGED <<kpToken, kpSubscribed, kpChan, kpValue, kpFirstRead, kpRet, kpPc,
                   notKpVars>>

\* The committed item is published to the subscribers of the item.
KpUpdatePublished ==
    /\ kpUnpublished # << >>
    /\ kpUnpublished' = Tail(kpUnpublished)
    /\ kpChan' = IF kpSubscribed THEN Append(kpChan, Head(kpUnpublished)) ELSE kpChan
    /\ UNCHANGED <<kpToken, kpStored, kpSubscribed, kpValue, kpFirstRead, kpRet, kpPc,
                   notKpVars>>

KpNext ==
    \/ HandlePollItemSubscribe
    \/ HandlePollItemRead
    \/ HandlePollItemLoop
    \/ PollItemTimeout
    \/ \E n \in KpNodes : KpUpdateCommits(n)
    \/ KpUpdatePublished

\* C38: an item that the poll returns is newer than the token; the poll
\* that waits for a notification has missed no update: when the stored
\* item is newer than the token and every update was published, a
\* notification of an item newer than the token is in its channel; and a
\* poll that timed out returned None.
C38_PollReturnsNewerAndMissesNothing ==
    /\ (kpRet # None /\ kpRet[1].item # None) => IsNewerThan(kpRet[1].item[1], kpToken)
    /\ (kpPc = "loop" /\ kpUnpublished = << >> /\ IsNewerThan(kpStored, kpToken)) =>
          \/ IsNewerThan(kpValue[1], kpToken)
          \/ \E i \in 1..Len(kpChan) : IsNewerThan(kpChan[i], kpToken)
    /\ kpRet # None => kpPc = "done"

\* C38, its case: the stored item that the poll read was not newer than the
\* token, an update was committed while the poll ran, and the poll returned
\* the updated item.
C38_Witness ==
    /\ kpFirstRead # None /\ ~IsNewerThan(kpFirstRead[1], kpToken)
    /\ kpRet # None /\ kpRet[1].item = Some(kpStored)

(***************************************************************************)
(*      A RANGED OR PART GET AND A DELETED VERSION (api/s3/get.rs)         *)
(*                                                                         *)
(* The handlers get the range from the metadata of the object version,     *)
(* read before, and the blocks from the Version row, read now. A Version   *)
(* that is deleted in between has an empty block map.                      *)
(***************************************************************************)

MaxGrBlocks == 2
MaxGrBlockSize == 2
MaxGrPart == 2

GrBlockLists ==
    {bl \in UNION {[1..n -> [part : 1..MaxGrPart, size : 1..MaxGrBlockSize]] :
                      n \in 1..MaxGrBlocks} :
        \A i \in 1..(Len(bl) - 1) : bl[i].part <= bl[i + 1].part}

RECURSIVE GrSum(_, _, _)
\* The sizes of the blocks i..j
GrSum(bl, i, j) == IF i > j THEN 0 ELSE bl[i].size + GrSum(bl, i + 1, j)

\* calculate_part_bounds: None, or Some(<<begin, end>>) of the part
CalculatePartBounds(bl, part_number) ==
    IF \A i \in 1..Len(bl) : bl[i].part # part_number THEN None
    ELSE LET first == CHOOSE i \in 1..Len(bl) :
                         /\ bl[i].part = part_number
                         /\ \A j \in 1..(i - 1) : bl[j].part # part_number
             last == CHOOSE i \in first..Len(bl) :
                         /\ \A j \in first..i : bl[j].part = part_number
                         /\ (i = Len(bl) \/ bl[i + 1].part # part_number)
             offset == GrSum(bl, 1, first - 1)
         IN  Some(<<offset, offset + GrSum(bl, first, last)>>)

\* body_from_blocks_range: the capacity of `blocks` is computed from
\* all_blocks[0].1.size, which panics on an empty slice
FirstBlockIndexPanics(all_blocks) == all_blocks = << >>

GrInit ==
    /\ grBlocks \in GrBlockLists
    /\ grDeleted = FALSE
    /\ grMetaSize = GrSum(grBlocks, 1, Len(grBlocks))
    /\ grKind \in {"range", "part"}
    /\ grBegin \in (IF grKind = "range" THEN 0..(grMetaSize - 1) ELSE {0})
    /\ grEnd \in (IF grKind = "range" THEN (grBegin + 1)..grMetaSize ELSE {0})
    /\ grPart \in (IF grKind = "part" THEN 1..(MaxGrPart + 1) ELSE {0})
    /\ grVersion = None
    /\ grRet = None
    /\ grPc = "get"

GrIdle ==
    /\ grBlocks = None
    /\ grDeleted = None
    /\ grMetaSize = None
    /\ grKind = None
    /\ grBegin = None
    /\ grEnd = None
    /\ grPart = None
    /\ grVersion = None
    /\ grRet = None
    /\ grPc = None

\* The Version is deleted by another request: its block map is empty from
\* then on.
GrVersionDeleted ==
    /\ ~grDeleted
    /\ grDeleted' = TRUE
    /\ grBlocks' = << >>
    /\ UNCHANGED <<grMetaSize, grKind, grBegin, grEnd, grPart, grVersion, grRet, grPc,
                   notGrVars>>

\* handle_get_range and handle_get_part, arm FirstBlock: version_table.get
HandleGetVersion ==
    /\ grPc = "get"
    /\ grVersion' = Some(grBlocks)
    /\ grPc' = IF grKind = "range" THEN "body" ELSE "bounds"
    /\ UNCHANGED <<grBlocks, grDeleted, grMetaSize, grKind, grBegin, grEnd, grPart, grRet,
                   notGrVars>>

\* handle_get_part: calculate_part_bounds(..).ok_or(Error::InvalidPart)?
HandleGetPartBounds ==
    /\ grPc = "bounds"
    /\ LET bounds == CalculatePartBounds(grVersion[1], grPart)
       IN  IF bounds = None
           THEN /\ grRet' = Some("InvalidPart")
                /\ grPc' = "done"
                /\ UNCHANGED <<grBegin, grEnd>>
           ELSE /\ grBegin' = bounds[1][1]
                /\ grEnd' = bounds[1][2]
                /\ grPc' = "body"
                /\ UNCHANGED grRet
    /\ UNCHANGED <<grBlocks, grDeleted, grMetaSize, grKind, grPart, grVersion, notGrVars>>

\* body_from_blocks_range(garage, version.blocks.items(), begin, end), and
\* the answer 206 with the body
HandleGetBody ==
    /\ grPc = "body"
    /\ IF FirstBlockIndexPanics(grVersion[1])
       THEN grPc' = "panicked" /\ UNCHANGED grRet
       ELSE grPc' = "done" /\ grRet' = Some("PartialContent")
    /\ UNCHANGED <<grBlocks, grDeleted, grMetaSize, grKind, grBegin, grEnd, grPart, grVersion,
                   notGrVars>>

GrNext ==
    \/ GrVersionDeleted
    \/ HandleGetVersion
    \/ HandleGetPartBounds
    \/ HandleGetBody

\* C40: a ranged GET and a part GET never panic, also when the Version was
\* deleted and its block list is empty when they read it.
C40_RangedGetNeverPanics == grPc # "panicked"

(***************************************************************************)
(*                             SPECIFICATIONS                              *)
(***************************************************************************)

InitCounter == CtrInit /\ PutIdle /\ BlkIdle /\ OffIdle /\ GcIdle /\ SynIdle /\ GetIdle
               /\ MutIdle /\ WtIdle /\ RepIdle /\ ScrIdle /\ BrIdle /\ WkIdle /\ TxIdle /\ SqlIdle /\ RgIdle
               /\ PlIdle /\ CcIdle /\ SvIdle /\ RrIdle /\ KpIdle /\ GrIdle
SpecCounter == InitCounter /\ [][CtrNext]_vars

InitPut == PutInit /\ CtrIdle /\ BlkIdle /\ OffIdle /\ GcIdle /\ SynIdle /\ GetIdle
           /\ MutIdle /\ WtIdle /\ RepIdle /\ ScrIdle /\ BrIdle /\ WkIdle /\ TxIdle /\ SqlIdle /\ RgIdle
           /\ PlIdle /\ CcIdle /\ SvIdle /\ RrIdle /\ KpIdle /\ GrIdle
SpecPut == InitPut /\ [][PutNext]_vars

InitBlock == BlkInit /\ CtrIdle /\ PutIdle /\ OffIdle /\ GcIdle /\ SynIdle /\ GetIdle
             /\ MutIdle /\ WtIdle /\ RepIdle /\ ScrIdle /\ BrIdle /\ WkIdle /\ TxIdle /\ SqlIdle /\ RgIdle
             /\ PlIdle /\ CcIdle /\ SvIdle /\ RrIdle /\ KpIdle /\ GrIdle
SpecBlock == InitBlock /\ [][BlkNext]_vars

InitBlockRc == BlkInit /\ CtrIdle /\ PutIdle /\ OffIdle /\ GcIdle /\ SynIdle /\ GetIdle
               /\ MutIdle /\ WtIdle /\ RepIdle /\ ScrIdle /\ BrIdle /\ WkIdle /\ TxIdle /\ SqlIdle /\ RgIdle
               /\ PlIdle /\ CcIdle /\ SvIdle /\ RrIdle /\ KpIdle /\ GrIdle
SpecBlockRc == InitBlockRc /\ [][RcNext]_vars

InitOffload == OffInit /\ CtrIdle /\ PutIdle /\ BlkIdle /\ GcIdle /\ SynIdle /\ GetIdle
               /\ MutIdle /\ WtIdle /\ RepIdle /\ ScrIdle /\ BrIdle /\ WkIdle /\ TxIdle /\ SqlIdle /\ RgIdle
               /\ PlIdle /\ CcIdle /\ SvIdle /\ RrIdle /\ KpIdle /\ GrIdle
SpecOffload == InitOffload /\ [][OffNext]_vars

InitGc == GcInit /\ CtrIdle /\ PutIdle /\ BlkIdle /\ OffIdle /\ SynIdle /\ GetIdle
          /\ MutIdle /\ WtIdle /\ RepIdle /\ ScrIdle /\ BrIdle /\ WkIdle /\ TxIdle /\ SqlIdle /\ RgIdle
          /\ PlIdle /\ CcIdle /\ SvIdle /\ RrIdle /\ KpIdle /\ GrIdle
SpecGc == InitGc /\ [][GcNext]_vars

InitSync == SynInit /\ CtrIdle /\ PutIdle /\ BlkIdle /\ OffIdle /\ GcIdle /\ GetIdle
            /\ MutIdle /\ WtIdle /\ RepIdle /\ ScrIdle /\ BrIdle /\ WkIdle /\ TxIdle /\ SqlIdle /\ RgIdle
            /\ PlIdle /\ CcIdle /\ SvIdle /\ RrIdle /\ KpIdle /\ GrIdle
SpecSync == InitSync /\ [][SynNext]_vars

InitGet == GetInit /\ CtrIdle /\ PutIdle /\ BlkIdle /\ OffIdle /\ GcIdle /\ SynIdle
           /\ MutIdle /\ WtIdle /\ RepIdle /\ ScrIdle /\ BrIdle /\ WkIdle /\ TxIdle /\ SqlIdle /\ RgIdle
           /\ PlIdle /\ CcIdle /\ SvIdle /\ RrIdle /\ KpIdle /\ GrIdle
SpecGet == InitGet /\ [][GetNext]_vars

InitLock == MutInit /\ CtrIdle /\ PutIdle /\ BlkIdle /\ OffIdle /\ GcIdle /\ SynIdle
            /\ GetIdle /\ WtIdle /\ RepIdle /\ ScrIdle /\ BrIdle /\ WkIdle /\ TxIdle /\ SqlIdle /\ RgIdle
            /\ PlIdle /\ CcIdle /\ SvIdle /\ RrIdle /\ KpIdle /\ GrIdle
SpecLock == InitLock /\ [][MutNext]_vars

InitWatcher == WtInit /\ CtrIdle /\ PutIdle /\ BlkIdle /\ OffIdle /\ GcIdle /\ SynIdle
               /\ GetIdle
               /\ MutIdle /\ RepIdle /\ ScrIdle /\ BrIdle /\ WkIdle /\ TxIdle /\ SqlIdle /\ RgIdle
               /\ PlIdle /\ CcIdle /\ SvIdle /\ RrIdle /\ KpIdle /\ GrIdle
SpecWatcher == InitWatcher /\ [][WtNext]_vars

InitRepair == RepInit /\ CtrIdle /\ PutIdle /\ BlkIdle /\ OffIdle /\ GcIdle /\ SynIdle
              /\ GetIdle
              /\ MutIdle /\ WtIdle /\ ScrIdle /\ BrIdle /\ WkIdle /\ TxIdle /\ SqlIdle /\ RgIdle
              /\ PlIdle /\ CcIdle /\ SvIdle /\ RrIdle /\ KpIdle /\ GrIdle
SpecRepairVersions == InitRepair /\ [][RepVersionsNext]_vars
SpecRepairBlockRefs == InitRepair /\ [][RepBlockRefsNext]_vars

InitScrub == ScrInit /\ CtrIdle /\ PutIdle /\ BlkIdle /\ OffIdle /\ GcIdle /\ SynIdle
             /\ GetIdle
             /\ MutIdle /\ WtIdle /\ RepIdle /\ BrIdle /\ WkIdle /\ TxIdle /\ SqlIdle /\ RgIdle
             /\ PlIdle /\ CcIdle /\ SvIdle /\ RrIdle /\ KpIdle /\ GrIdle
SpecScrub == InitScrub /\ [][ScrNext]_vars

InitBlockRepair == BrInit /\ CtrIdle /\ PutIdle /\ BlkIdle /\ OffIdle /\ GcIdle /\ SynIdle
                   /\ GetIdle /\ MutIdle /\ WtIdle /\ RepIdle /\ ScrIdle /\ WkIdle /\ TxIdle /\ SqlIdle /\ RgIdle
                   /\ PlIdle /\ CcIdle /\ SvIdle /\ RrIdle /\ KpIdle /\ GrIdle
SpecBlockRepair == InitBlockRepair /\ [][BrNext]_vars

InitWorkers == WkInit /\ CtrIdle /\ PutIdle /\ BlkIdle /\ OffIdle /\ GcIdle /\ SynIdle /\ GetIdle
               /\ MutIdle /\ WtIdle /\ RepIdle /\ ScrIdle /\ BrIdle /\ TxIdle /\ SqlIdle /\ RgIdle
               /\ PlIdle /\ CcIdle /\ SvIdle /\ RrIdle /\ KpIdle /\ GrIdle
SpecWorkers == InitWorkers /\ [][WkNext]_vars

InitTransaction == TxInit /\ CtrIdle /\ PutIdle /\ BlkIdle /\ OffIdle /\ GcIdle /\ SynIdle /\ GetIdle
                   /\ MutIdle /\ WtIdle /\ RepIdle /\ ScrIdle /\ BrIdle /\ WkIdle /\ SqlIdle /\ RgIdle
                   /\ PlIdle /\ CcIdle /\ SvIdle /\ RrIdle /\ KpIdle /\ GrIdle
SpecTransaction == InitTransaction /\ [][TxNext]_vars

\* Threads are scheduled: a step that stays possible is eventually taken.
InitSqlite == SqlInit /\ CtrIdle /\ PutIdle /\ BlkIdle /\ OffIdle /\ GcIdle /\ SynIdle /\ GetIdle
              /\ MutIdle /\ WtIdle /\ RepIdle /\ ScrIdle /\ BrIdle /\ WkIdle /\ TxIdle /\ RgIdle
              /\ PlIdle /\ CcIdle /\ SvIdle /\ RrIdle /\ KpIdle /\ GrIdle
SpecSqlite == InitSqlite /\ [][SqlNext]_vars /\ WF_vars(SqlNext)

InitRange == RgInit /\ CtrIdle /\ PutIdle /\ BlkIdle /\ OffIdle /\ GcIdle /\ SynIdle /\ GetIdle
             /\ MutIdle /\ WtIdle /\ RepIdle /\ ScrIdle /\ BrIdle /\ WkIdle /\ TxIdle /\ SqlIdle
             /\ PlIdle /\ CcIdle /\ SvIdle /\ RrIdle /\ KpIdle /\ GrIdle
SpecRange == InitRange /\ [][RgNext]_vars

InitPipeline == PlInit /\ CtrIdle /\ PutIdle /\ BlkIdle /\ OffIdle /\ GcIdle /\ SynIdle /\ GetIdle
                /\ MutIdle /\ WtIdle /\ RepIdle /\ ScrIdle /\ BrIdle /\ WkIdle /\ TxIdle /\ SqlIdle
                /\ RgIdle /\ CcIdle /\ SvIdle /\ RrIdle /\ KpIdle /\ GrIdle
SpecPipeline == InitPipeline /\ [][PlNext]_vars

InitCausality == CcInit /\ CtrIdle /\ PutIdle /\ BlkIdle /\ OffIdle /\ GcIdle /\ SynIdle /\ GetIdle
                 /\ MutIdle /\ WtIdle /\ RepIdle /\ ScrIdle /\ BrIdle /\ WkIdle /\ TxIdle /\ SqlIdle
                 /\ RgIdle /\ PlIdle /\ SvIdle /\ RrIdle /\ KpIdle /\ GrIdle
SpecCausality == InitCausality /\ [][CcNext]_vars

InitUploadRepair == SvInit /\ CtrIdle /\ PutIdle /\ BlkIdle /\ OffIdle /\ GcIdle /\ SynIdle /\ GetIdle
                    /\ MutIdle /\ WtIdle /\ RepIdle /\ ScrIdle /\ BrIdle /\ WkIdle /\ TxIdle
                    /\ SqlIdle /\ RgIdle /\ PlIdle /\ CcIdle /\ RrIdle /\ KpIdle /\ GrIdle
SpecUploadRepair == InitUploadRepair /\ [][SvNext]_vars

InitReadRange == RrInit /\ CtrIdle /\ PutIdle /\ BlkIdle /\ OffIdle /\ GcIdle /\ SynIdle /\ GetIdle
                 /\ MutIdle /\ WtIdle /\ RepIdle /\ ScrIdle /\ BrIdle /\ WkIdle /\ TxIdle
                 /\ SqlIdle /\ RgIdle /\ PlIdle /\ CcIdle /\ SvIdle /\ KpIdle /\ GrIdle
SpecReadRange == InitReadRange /\ [][RrNext]_vars

InitPollItem == KpInit /\ CtrIdle /\ PutIdle /\ BlkIdle /\ OffIdle /\ GcIdle /\ SynIdle /\ GetIdle
                /\ MutIdle /\ WtIdle /\ RepIdle /\ ScrIdle /\ BrIdle /\ WkIdle /\ TxIdle
                /\ SqlIdle /\ RgIdle /\ PlIdle /\ CcIdle /\ SvIdle /\ RrIdle /\ GrIdle
SpecPollItem == InitPollItem /\ [][KpNext]_vars

InitRangedGet == GrInit /\ CtrIdle /\ PutIdle /\ BlkIdle /\ OffIdle /\ GcIdle /\ SynIdle /\ GetIdle
                 /\ MutIdle /\ WtIdle /\ RepIdle /\ ScrIdle /\ BrIdle /\ WkIdle /\ TxIdle
                 /\ SqlIdle /\ RgIdle /\ PlIdle /\ CcIdle /\ SvIdle /\ RrIdle /\ KpIdle
SpecRangedGet == InitRangedGet /\ [][GrNext]_vars

=============================================================================
